---- MODULE Spec2Model ----
(***************************************************************************)
(* Model of the resilient batch-processing pipeline of the competitive-    *)
(* landscape agent: the token-aware chunkers (utils/tokenize.py and         *)
(* agent/nodes/analyze_scrapped_data.py), the graceful JSON parser, and the *)
(* four completion stages with their aggregation.                          *)
(*                                                                         *)
(* Three specifications share the variables:                               *)
(*   SpecChunk  one call of a chunker on a bounded payload,                *)
(*   SpecParse  one call of graceful_json_parse on a bounded text,         *)
(*   Spec       one run of the stage graph, a chunk at a time.             *)
(***************************************************************************)
EXTENDS Integers, Sequences, FiniteSets, TLC

VARIABLES
    \* ---- chunker call
    payload,    \* the value handed to the chunker: [kind, items]
    budget,     \* max_tokens / max_tokens_per_batch of the call
    chunks,     \* the returned list of chunks (each a sequence of elements)
    called,     \* "none" before the call, then the name of the function called
    \* ---- parser call
    raw,        \* the text handed to graceful_json_parse (a sequence of lexemes)
    parsed,     \* Pending before the call, then the returned value
    \* ---- validator call
    args,       \* the arguments of extract_valid_entries: [data, required_fields]
    entries,    \* NotCalled before the call, then the returned list
    \* ---- stage graph run
    node,       \* the graph node to execute next, "END" after the last one
    pc,         \* position inside the node's function: entry, loop or single
    st,         \* the state dict: the target, the keys that hold a value,
                \* the node that set each of them, and whether message and
                \* error are set
    output,     \* the value the last node stored under its output key
    ret,        \* the return statement the last node took
    work,       \* the chunk list of the node's loop
    idx,        \* number of chunks of the loop already handled
    acc,        \* the loop's accumulator (all_results / chunk_results); on the
                \* single-call path of the scoring stage the parsed answer
    calls,      \* the chunks for which the external call was issued, in order
    failed,     \* positions in work of the chunks whose call raised
    garbled,    \* positions in work of the chunks whose answer no strategy parsed
    escaped,    \* TRUE when an exception left a stage function
    api         \* the completion calls: the outcomes and the trace of the
                \* latest call site, whether the minimum delay has been
                \* waited since the latest invocation (rested), and whether
                \* an invocation was ever made without it (hasty)

vars == <<payload, budget, chunks, called, raw, parsed, args, entries,
          node, pc, st, output, ret, work, idx, acc, calls, failed, garbled, escaped,
          api>>

chunkVars == <<payload, budget, chunks, called>>
parseVars == <<raw, parsed, args, entries>>
stageVars == <<node, pc, st, output, ret, work, idx, acc, calls, failed, garbled,
               escaped, api>>

(***************************************************************************)
(* Bounds of the model.                                                    *)
(***************************************************************************)
MaxItems  == 3    \* elements (or key/value pairs, or characters) of a payload
MaxSize   == 5    \* size of one element's JSON text
MaxBudget == 4    \* token budget of a chunker call
MaxOverlap == 2   \* largest overlap_tokens of a text splitter call
MaxText   == 4    \* lexemes of a text handed to the parser, wrapping apart

(***************************************************************************)
(* Generic helpers.                                                        *)
(***************************************************************************)
RECURSIVE SumSize(_)
SumSize(s) == IF s = <<>> THEN 0 ELSE Head(s).size + SumSize(Tail(s))

RECURSIVE Flatten(_)
Flatten(ss) == IF ss = <<>> THEN <<>> ELSE Head(ss) \o Flatten(Tail(ss))

SeqsUpTo(S, n) == UNION {[1..k -> S] : k \in 0..n}

(***************************************************************************)
(* Token estimators.  An element is [id, size]: id is its position in the  *)
(* payload, size the size of its JSON text in the unit of the estimator    *)
(* that reads it: tokens for count_tokens, characters for estimate_tokens. *)
(* json.dumps of a list or mapping adds two brackets and one separator     *)
(* between neighbours; a separator is one token and two characters (", "). *)
(***************************************************************************)
CharsPerToken == 4

\* count_tokens(json.dumps(elements)) for a list or mapping of the elements
count_tokens(elems) ==
    2 + SumSize(elems) + (IF Len(elems) > 0 THEN Len(elems) - 1 ELSE 0)

\* len(json.dumps(elements)) in characters
JsonChars(elems) ==
    2 + SumSize(elems) + (IF Len(elems) > 0 THEN 2 * (Len(elems) - 1) ELSE 0)

\* estimate_tokens of one element of a list
estimate_tokens_item(it) == it.size \div CharsPerToken

\* estimate_tokens of a whole list or mapping
estimate_tokens(elems) == JsonChars(elems) \div CharsPerToken

\* estimate_tokens of a string of n characters
estimate_tokens_text(n) == n \div CharsPerToken

(***************************************************************************)
(* utils/tokenize.py: split_json_array, split_json_object,                 *)
(* check_and_split_json_input.                                             *)
(***************************************************************************)
\* the loop of split_json_array from element k on
RECURSIVE ArrayLoop(_, _, _, _, _, _)
ArrayLoop(arr, k, out, cur, curTok, max) ==
    IF k > Len(arr)
    THEN IF cur # <<>> THEN Append(out, cur) ELSE out
    ELSE LET item == arr[k]
             item_tokens == item.size + 1
         IN IF curTok + item_tokens > max /\ cur # <<>>
            THEN ArrayLoop(arr, k + 1, Append(out, cur), <<item>>,
                           2 + item_tokens, max)
            ELSE ArrayLoop(arr, k + 1, out, Append(cur, item),
                           curTok + item_tokens, max)

\* split_json_array without its closing "if current_chunk: chunks.append"
split_json_array_NoTail(arr, max) ==
    LET full == ArrayLoop(arr, 1, <<>>, <<>>, 2, max)
    IN SubSeq(full, 1, Len(full) - 1)

split_json_array(arr, max) == ArrayLoop(arr, 1, <<>>, <<>>, 2, max)

\* the loop of split_json_object from pair k on; a pair's size is that of
\* its text without the braces, so count_tokens({key: value}) - 2 = size
RECURSIVE ObjectLoop(_, _, _, _, _, _)
ObjectLoop(obj, k, out, cur, curTok, max) ==
    IF k > Len(obj)
    THEN IF cur # <<>> THEN Append(out, cur) ELSE out
    ELSE LET item == obj[k]
             item_tokens == (item.size + 2) - 2
         IN IF curTok + item_tokens > max /\ cur # <<>>
            THEN ObjectLoop(obj, k + 1, Append(out, cur), <<item>>,
                            2 + item_tokens, max)
            ELSE ObjectLoop(obj, k + 1, out, Append(cur, item),
                            curTok + item_tokens, max)

split_json_object(obj, max) == ObjectLoop(obj, 1, <<>>, <<>>, 2, max)

check_and_split_json_input(data, max) ==
    IF count_tokens(data.items) <= max
    THEN <<data.items>>
    ELSE IF data.kind = "list"
         THEN split_json_array(data.items, max)
         ELSE split_json_object(data.items, max)

(***************************************************************************)
(* utils/tokenize.py: split_text_by_tokens.  The text is given by its      *)
(* sentences (the pieces of text.split('. ')), each with the token count   *)
(* of the sentence and its '. '; the token count of a concatenation is     *)
(* taken to be the sum of the counts of its parts.  A chunk is the         *)
(* sequence of its sentences, led by the item [id |-> 0, size |-> k] when  *)
(* it starts with k tokens of overlap text.                                *)
(***************************************************************************)
\* get_overlap_text: the whole text when it has no more than overlap_tokens
\* tokens, its last overlap_tokens tokens otherwise; given by its length
get_overlap_text(text_tokens, overlap_tokens) ==
    IF text_tokens <= overlap_tokens THEN text_tokens ELSE overlap_tokens

\* for sentence in sentences: from sentence k on
RECURSIVE SentenceLoop(_, _, _, _, _, _, _)
SentenceLoop(sentences, k, out, current_chunk, current_tokens, max_tokens, overlap_tokens) ==
    IF k > Len(sentences)
    THEN IF current_chunk # <<>> THEN Append(out, current_chunk) ELSE out
    ELSE LET sentence == sentences[k]
             sentence_tokens == sentence.size
             flush == current_tokens + sentence_tokens > max_tokens
                      /\ current_chunk # <<>>
             overlap == get_overlap_text(current_tokens, overlap_tokens)
         IN SentenceLoop(sentences, k + 1,
                IF flush THEN Append(out, current_chunk) ELSE out,
                IF flush
                THEN IF overlap_tokens > 0
                     THEN <<[id |-> 0, size |-> overlap], sentence>>
                     ELSE <<sentence>>
                ELSE Append(current_chunk, sentence),
                IF flush
                THEN IF overlap_tokens > 0 THEN overlap + sentence_tokens
                     ELSE sentence_tokens
                ELSE current_tokens + sentence_tokens,
                max_tokens, overlap_tokens)

split_text_by_tokens(sentences, max_tokens, overlap_tokens) ==
    IF SumSize(sentences) <= max_tokens
    THEN <<sentences>>
    ELSE SentenceLoop(sentences, 1, <<>>, <<>>, 0, max_tokens, overlap_tokens)

(***************************************************************************)
(* agent/nodes/analyze_scrapped_data.py: split_data_by_tokens.             *)
(***************************************************************************)
\* the batching loop over a list from element k on
RECURSIVE BatchLoop(_, _, _, _, _, _)
BatchLoop(data, k, batches, cur, curTok, max) ==
    IF k > Len(data)
    THEN IF cur # <<>> THEN Append(batches, cur) ELSE batches
    ELSE LET item == data[k]
             item_tokens == estimate_tokens_item(item)
             flush == curTok + item_tokens > max /\ cur # <<>>
         IN BatchLoop(data, k + 1,
                      IF flush THEN Append(batches, cur) ELSE batches,
                      IF flush THEN <<item>> ELSE Append(cur, item),
                      IF flush THEN item_tokens ELSE curTok + item_tokens,
                      max)

\* the slices data[i:i + chunk_size] of a string that is not JSON
RECURSIVE TextSlices(_, _)
TextSlices(text, chunk_size) ==
    IF text = <<>> THEN <<>>
    ELSE IF Len(text) <= chunk_size THEN <<text>>
    ELSE <<SubSeq(text, 1, chunk_size)>>
         \o TextSlices(SubSeq(text, chunk_size + 1, Len(text)), chunk_size)

split_data_by_tokens(data, max) ==
    IF data.items = <<>> THEN <<>>
    ELSE IF data.kind = "text"
    THEN IF estimate_tokens_text(Len(data.items)) <= max
         THEN <<data.items>>
         ELSE TextSlices(data.items, max * 3)
    ELSE IF data.kind # "list"
    THEN IF estimate_tokens(data.items) <= max THEN <<data.items>> ELSE <<>>
    ELSE BatchLoop(data.items, 1, <<>>, <<>>, 0, max)

(***************************************************************************)
(* utils/tokenize.py: graceful_json_parse and its helpers.                 *)
(*                                                                         *)
(* A text is a sequence of lexemes: the four brackets, "1" (a JSON scalar  *)
(* literal other than null: a number, a quoted string, true or false),     *)
(* "null", "x" (a word that is not JSON), "nl" (a newline, the only        *)
(* whitespace), "fence" (a code fence) and "json" (the language tag).        *)
(* A parsed value is [kind, text]: kind is "list", "dict", "scalar" or     *)
(* "null" (Python's None) and text is the value's JSON text without        *)
(* whitespace.                                                             *)
(***************************************************************************)
SelectNotWs(s) == SelectSeq(s, LAMBDA c : c # "nl")

RECURSIVE LStrip(_)
LStrip(s) == IF s # <<>> /\ Head(s) = "nl" THEN LStrip(Tail(s)) ELSE s

RECURSIVE RStrip(_)
RStrip(s) ==
    IF s # <<>> /\ s[Len(s)] = "nl" THEN RStrip(SubSeq(s, 1, Len(s) - 1)) ELSE s

Strip(s) == LStrip(RStrip(s))

StartsWith(s, p) == Len(s) >= Len(p) /\ SubSeq(s, 1, Len(p)) = p

EndsWith(s, p) ==
    Len(s) >= Len(p) /\ SubSeq(s, Len(s) - Len(p) + 1, Len(s)) = p

Drop(s, n) == SubSeq(s, n + 1, Len(s))

\* s.rfind(c): the last index of c in s, 0 when absent (Python's -1)
RFind(s, c) ==
    IF \E i \in 1..Len(s) : s[i] = c
    THEN CHOOSE i \in 1..Len(s) : s[i] = c /\ \A j \in (i + 1)..Len(s) : s[j] # c
    ELSE 0

\* the grammar json.loads accepts, on a text without whitespace
RECURSIVE IsJson(_)
IsJson(t) ==
    \/ t \in {<<"1">>, <<"null">>, <<"{", "}">>, <<"[", "]">>}
    \/ /\ Len(t) >= 3
       /\ t[1] = "[" /\ t[Len(t)] = "]"
       /\ IsJson(SubSeq(t, 2, Len(t) - 1))

\* "template" and "default" are the texts of the two fallback mappings
KindOf(t) ==
    IF t[1] = "[" THEN "list"
    ELSE IF t[1] \in {"{", "template", "default"} THEN "dict"
    ELSE IF t[1] = "null" THEN "null" ELSE "scalar"

JsonError == [kind |-> "JSONDecodeError", text |-> <<>>]

\* what json.loads raises on an integer literal longer than the
\* interpreter's limit for int(str): a ValueError that is no JSONDecodeError
IntLimitError == [kind |-> "ValueError", text |-> <<>>]

\* the decoder scans from the left and converts a number as soon as it has
\* read it: the lexeme "big" (such a literal) is converted when it stands
\* where a value is expected, at the start or after opening brackets only
ScansBig(t) ==
    \E k \in 1..Len(t) : t[k] = "big" /\ \A j \in 1..(k - 1) : t[j] = "["

\* json.loads(s): the value, JsonError where Python raises JSONDecodeError,
\* IntLimitError where the conversion of a number raises
json_loads(s) ==
    LET t == SelectNotWs(s)
    IN IF ScansBig(t) THEN IntLimitError
       ELSE IF IsJson(t) THEN [kind |-> KindOf(t), text |-> t] ELSE JsonError

clean_json_string(data) ==
    LET d0 == Strip(data)
        d1 == IF StartsWith(d0, <<"fence", "json">>) THEN LStrip(Drop(d0, 2)) ELSE d0
        d2 == IF StartsWith(d1, <<"fence">>) THEN LStrip(Drop(d1, 1)) ELSE d1
        d3 == IF EndsWith(d2, <<"fence">>)
              THEN RStrip(SubSeq(d2, 1, Len(d2) - 1)) ELSE d2
        d4 == IF StartsWith(d3, <<"json", "nl">>) THEN Strip(Drop(d3, 2)) ELSE d3
    IN d4

\* The outcome of a strategy is the value it returns, JsonError when its
\* except clause caught the exception (pass), or the exception that its
\* except clause does not name and that leaves try_parse_json_strategies.

\* Strategy 1: json.loads(data); except json.JSONDecodeError
Strategy1(data) == json_loads(data)

\* Strategy 2: re.search for a bracketed or a braced span (greedy, DOTALL),
\* then json.loads of the match: the leftmost opener that has a closer of
\* its kind after it, up to the last such closer;
\* except (json.JSONDecodeError, AttributeError)
RegexStarts(data) ==
    {p \in 1..Len(data) :
        \/ data[p] = "[" /\ RFind(data, "]") > p
        \/ data[p] = "{" /\ RFind(data, "}") > p}

RegexMatch(data) ==
    LET p == CHOOSE q \in RegexStarts(data) : \A r \in RegexStarts(data) : q <= r
        close == IF data[p] = "[" THEN "]" ELSE "}"
    IN SubSeq(data, p, RFind(data, close))

Strategy2(data) ==
    IF RegexStarts(data) = {} THEN JsonError ELSE json_loads(RegexMatch(data))

\* Strategy 3: from the last closer backwards to the opener that balances
\* it; except (json.JSONDecodeError, ValueError)
RECURSIVE MatchBack(_, _, _, _, _)
MatchBack(cand, i, open, close, count) ==
    IF i < 1 THEN 0
    ELSE IF cand[i] = close THEN MatchBack(cand, i - 1, open, close, count + 1)
    ELSE IF cand[i] = open
         THEN IF count - 1 = 0 THEN i
              ELSE MatchBack(cand, i - 1, open, close, count - 1)
    ELSE MatchBack(cand, i - 1, open, close, count)

Strategy3(data) ==
    LET last_brace == RFind(data, "}")
        last_bracket == RFind(data, "]")
        open == IF last_brace > last_bracket THEN "{" ELSE "["
        close == IF last_brace > last_bracket THEN "}" ELSE "]"
        last == IF last_brace > last_bracket THEN last_brace ELSE last_bracket
        cand == SubSeq(data, 1, last)
        start_pos == MatchBack(cand, Len(cand), open, close, 0)
    IN IF last_brace = last_bracket THEN JsonError
       ELSE IF start_pos = 0 THEN JsonError
       ELSE IF json_loads(SubSeq(cand, start_pos, Len(cand))) = IntLimitError
       THEN JsonError
       ELSE json_loads(SubSeq(cand, start_pos, Len(cand)))

\* Strategy 4: every line that is a JSON object on its own; a line that
\* raises JSONDecodeError is skipped, any other exception ends the strategy
\* (except Exception: pass)
RECURSIVE SplitLines(_)
SplitLines(s) ==
    IF \A i \in 1..Len(s) : s[i] # "nl" THEN <<s>>
    ELSE LET p == CHOOSE i \in 1..Len(s) :
                      s[i] = "nl" /\ \A j \in 1..(i - 1) : s[j] # "nl"
         IN <<SubSeq(s, 1, p - 1)>> \o SplitLines(Drop(s, p))

BracedLines(data) ==
    SelectSeq(SplitLines(data),
              LAMBDA line : /\ StartsWith(Strip(line), <<"{">>)
                            /\ EndsWith(Strip(line), <<"}">>))

LineObjects(data) ==
    SelectSeq(BracedLines(data),
              LAMBDA line : json_loads(Strip(line)) # JsonError)

Strategy4(data) ==
    IF \E i \in 1..Len(BracedLines(data)) :
           json_loads(Strip(BracedLines(data)[i])) = IntLimitError
    THEN JsonError
    ELSE IF LineObjects(data) = <<>> THEN JsonError
    ELSE [kind |-> "list",
          text |-> <<"[">> \o Flatten(LineObjects(data)) \o <<"]">>]

\* the four try blocks in their order, given the outcome of each: the
\* first outcome that is not a caught exception ends the function
Cascade(s1, s2, s3, s4) ==
    IF s1 # JsonError THEN [value |-> s1, via |-> "direct", tried |-> 1]
    ELSE IF s2 # JsonError THEN [value |-> s2, via |-> "regex", tried |-> 2]
    ELSE IF s3 # JsonError THEN [value |-> s3, via |-> "matching", tried |-> 3]
    ELSE IF s4 # JsonError THEN [value |-> s4, via |-> "lines", tried |-> 4]
    ELSE [value |-> [kind |-> "null", text |-> <<"null">>], via |-> "none",
          tried |-> 4]

\* try_parse_json_strategies: [value, via, tried]; via names the strategy
\* whose return statement was taken or whose exception left the function
\* (value.kind is then "ValueError"), "none" when every strategy failed
\* (the function returns None); tried is the number of try blocks entered.
\* Strategy 1 returns whatever json.loads gives, None for the text null.
try_parse_json_strategies(data) ==
    Cascade(Strategy1(data), Strategy2(data), Strategy3(data), Strategy4(data))

\* create_fallback_response: a copy of the template (a new generic mapping
\* without one), with _parsing_error, _context and _original_data_preview
create_fallback_response(template, context) ==
    IF template = "given"
    THEN [kind |-> "dict", text |-> <<"template">>, via |-> "fallback",
          parsing_error |-> TRUE, context |-> context, is_template |-> FALSE]
    ELSE [kind |-> "dict", text |-> <<"default">>, via |-> "fallback",
          parsing_error |-> TRUE, context |-> context, is_template |-> FALSE]

\* a parser that treats a list or mapping like any other value that is
\* not a string
graceful_json_parse_TextOnly(data, context) ==
    IF data.type = "None"
    THEN [kind |-> "dict",
          text |-> IF data.template = "given" THEN <<"template">> ELSE <<"default">>,
          via |-> "no_data", parsing_error |-> FALSE, context |-> "none",
          is_template |-> data.template = "given"]
    ELSE IF data.type = "value"
    THEN create_fallback_response(data.template, context)
    ELSE LET r == try_parse_json_strategies(clean_json_string(data.text))
         IN IF r.value.kind # "null"
            THEN [kind |-> r.value.kind, text |-> r.value.text, via |-> r.via,
                  parsing_error |-> FALSE, context |-> "none",
                  is_template |-> FALSE]
            ELSE create_fallback_response(data.template, context)

\* graceful_json_parse(data, fallback_template, context); data is
\* [type, text, template]: type "None", "str", or "value" for a list or
\* mapping that is already parsed.  The result of kind "ValueError" stands
\* for the call raising that exception; is_template tells that the value
\* returned is the object the caller passed as fallback_template.
graceful_json_parse(data, context) ==
    IF data.type = "None"
    THEN [kind |-> "dict",
          text |-> IF data.template = "given" THEN <<"template">> ELSE <<"default">>,
          via |-> "no_data", parsing_error |-> FALSE, context |-> "none",
          is_template |-> data.template = "given"]
    ELSE IF data.type = "value"
    THEN [kind |-> KindOf(data.text), text |-> data.text, via |-> "as_is",
          parsing_error |-> FALSE, context |-> "none", is_template |-> FALSE]
    ELSE LET r == try_parse_json_strategies(clean_json_string(data.text))
         IN IF r.value.kind # "null"
            THEN [kind |-> r.value.kind, text |-> r.value.text, via |-> r.via,
                  parsing_error |-> FALSE, context |-> "none",
                  is_template |-> FALSE]
            ELSE create_fallback_response(data.template, context)

\* ---- extract_valid_entries on records given field by field.  A mapping is
\* a function from its keys to its values; the value "empty" stands for any
\* falsy value (empty string, 0, false, null, empty list), "text" and "true"
\* for truthy ones.  data is [kind, items]: kind is "None", "scalar",
\* "dict" (items holds the one mapping) or "list"; an item is
\* [kind, fields], kind "dict" for a mapping.
Falsy(value) == value = "empty"

\* only a field that is missing is filled
FillField_MissingOnly(validated_item, field) ==
    IF field \notin DOMAIN validated_item
    THEN [n \in DOMAIN validated_item \cup {field} |->
             IF n = field THEN "Unknown" ELSE validated_item[n]]
    ELSE validated_item

\* if field not in validated_item or not validated_item[field]:
\*     validated_item[field] = "Unknown"
FillField(validated_item, field) ==
    IF field \notin DOMAIN validated_item \/ Falsy(validated_item[field])
    THEN [n \in DOMAIN validated_item \cup {field} |->
             IF n = field THEN "Unknown" ELSE validated_item[n]]
    ELSE validated_item

\* the body of for item in data: for a mapping item
RECURSIVE ValidatedItem(_, _)
ValidatedItem(validated_item, fields) ==
    IF fields = <<>>
    THEN [n \in DOMAIN validated_item \cup {"_validated"} |->
             IF n = "_validated" THEN "true" ELSE validated_item[n]]
    ELSE ValidatedItem(FillField(validated_item, Head(fields)), Tail(fields))

\* validated_item = item: the name is bound to the caller's mapping
item_copy_SameObject(item) == [fields |-> item.fields, is_item |-> TRUE]

\* validated_item = item.copy(): a new mapping with the fields of item;
\* is_item tells whether a write to it is a write to the caller's item
item_copy(item) == [fields |-> item.fields, is_item |-> FALSE]

extract_valid_entries_fields(data, required_fields) ==
    LET fields == IF required_fields.kind = "None" THEN <<>>
                  ELSE required_fields.names
        dicts == IF data.kind \in {"dict", "list"}
                 THEN SelectSeq(data.items, LAMBDA item : item.kind = "dict")
                 ELSE <<>>
    IN [i \in 1..Len(dicts) |-> ValidatedItem(item_copy(dicts[i]).fields, fields)]

\* the caller's items after the call: an item is changed by the writes to
\* validated_item when that is the item itself
items_after_call(data, required_fields) ==
    LET fields == IF required_fields.kind = "None" THEN <<>>
                  ELSE required_fields.names
    IN [i \in 1..Len(data.items) |->
           IF data.kind \in {"dict", "list"} /\ data.items[i].kind = "dict"
              /\ item_copy(data.items[i]).is_item
           THEN [kind |-> "dict",
                 fields |-> ValidatedItem(data.items[i].fields, fields)]
           ELSE data.items[i]]

(***************************************************************************)
(* SpecChunk: one chunker call on a payload drawn from the bounded sets.   *)
(***************************************************************************)
Elements(n) == [1..n -> 1..MaxSize]

MkItems(f) == [i \in DOMAIN f |-> [id |-> i, size |-> f[i]]]

Payloads ==
    {[kind |-> k, items |-> MkItems(f)] :
        k \in {"list", "dict"}, f \in UNION {Elements(n) : n \in 0..MaxItems}}
    \cup
    {[kind |-> "text", items |-> [i \in 1..n |-> [id |-> i, size |-> 1]]] :
        n \in 1..(MaxItems * MaxSize)}

NoPayload == [kind |-> "none", items |-> <<>>]

ChunkIdle ==
    /\ payload = NoPayload /\ budget = 0 /\ chunks = <<>> /\ called = "none"

NoText == [type |-> "None", text |-> <<>>, template |-> "none"]

Pending == [kind |-> "pending", text |-> <<>>, via |-> "none",
            parsing_error |-> FALSE, context |-> "none", is_template |-> FALSE]

NoArgs == [data |-> [kind |-> "None", items |-> <<>>],
           required_fields |-> [kind |-> "None", names |-> <<>>]]

NotCalled == <<[called |-> FALSE]>>

ValidateIdle == args = NoArgs /\ entries = NotCalled

ParseIdle == raw = NoText /\ parsed = Pending /\ ValidateIdle

NoOut == [type |-> "none"]

NoAcc == [keys |-> {}, recs |-> <<>>]

NoCall == [site |-> "none", first |-> "none", retry |-> "none", trace |-> <<>>,
           raised |-> FALSE, rested |-> TRUE, hasty |-> FALSE]

StageIdle ==
    /\ node = "idle" /\ pc = "idle"
    /\ st = [target |-> "", keys |-> {}, set_by |-> [k \in {} |-> ""],
             message |-> FALSE, error |-> FALSE]
    /\ output = NoOut /\ ret = "none"
    /\ work = <<>> /\ idx = 0 /\ acc = NoAcc /\ calls = <<>>
    /\ failed = {} /\ garbled = {} /\ escaped = FALSE
    /\ api = NoCall

InitChunk ==
    /\ payload \in Payloads
    /\ budget \in 1..MaxBudget
    /\ chunks = <<>>
    /\ called = "none"
    /\ ParseIdle
    /\ StageIdle

CallSplitJsonArray ==
    /\ called = "none" /\ payload.kind = "list"
    /\ chunks' = split_json_array(payload.items, budget)
    /\ called' = "split_json_array"
    /\ UNCHANGED <<payload, budget, parseVars, stageVars>>

CallSplitJsonObject ==
    /\ called = "none" /\ payload.kind = "dict"
    /\ chunks' = split_json_object(payload.items, budget)
    /\ called' = "split_json_object"
    /\ UNCHANGED <<payload, budget, parseVars, stageVars>>

CallCheckAndSplit ==
    /\ called = "none" /\ payload.kind \in {"list", "dict"}
    /\ chunks' = check_and_split_json_input(payload, budget)
    /\ called' = "check_and_split_json_input"
    /\ UNCHANGED <<payload, budget, parseVars, stageVars>>

CallSplitDataByTokens ==
    /\ called = "none"
    /\ chunks' = split_data_by_tokens(payload, budget)
    /\ called' = "split_data_by_tokens"
    /\ UNCHANGED <<payload, budget, parseVars, stageVars>>

\* split_text_by_tokens on the text whose sentences are the items of a
\* list payload
CallSplitTextByTokens ==
    /\ called = "none" /\ payload.kind = "list"
    /\ \E overlap_tokens \in 0..MaxOverlap :
          chunks' = split_text_by_tokens(payload.items, budget, overlap_tokens)
    /\ called' = "split_text_by_tokens"
    /\ UNCHANGED <<payload, budget, parseVars, stageVars>>

NextChunk ==
    \/ CallSplitTextByTokens
    \/ CallSplitJsonArray
    \/ CallSplitJsonObject
    \/ CallCheckAndSplit
    \/ CallSplitDataByTokens

SpecChunk == InitChunk /\ [][NextChunk]_vars

(***************************************************************************)
(* Properties of the chunkers (SpecChunk).                                 *)
(***************************************************************************)
TokenChunkers ==
    {"check_and_split_json_input", "split_json_array", "split_json_object"}

\* the estimated cost of one element on its own, as the called function's
\* estimator gives it
OwnCost(it) ==
    IF called = "split_data_by_tokens" THEN estimate_tokens_item(it) ELSE it.size

\* the estimated cost of a returned chunk
ChunkCost(c) ==
    IF called = "split_data_by_tokens"
    THEN IF payload.kind = "text" THEN estimate_tokens_text(Len(c))
         ELSE estimate_tokens(c)
    ELSE count_tokens(c)

InSomeChunk(it) ==
    \E c \in 1..Len(chunks) : \E j \in 1..Len(chunks[c]) : chunks[c][j] = it

\* C2: for every non-empty payload every chunker returns at least one chunk,
\* every element of the payload is in a chunk, and an element whose own cost
\* exceeds the budget is alone in its chunk.
C2_NoElementDropped ==
    (called # "none" /\ payload.items # <<>>) =>
        /\ Len(chunks) >= 1
        /\ \A i \in 1..Len(payload.items) : InSomeChunk(payload.items[i])
        /\ \A c \in 1..Len(chunks) : \A j \in 1..Len(chunks[c]) :
              OwnCost(chunks[c][j]) > budget => Len(chunks[c]) = 1

\* C3: the chunks of check_and_split_json_input, split_json_array and
\* split_json_object, concatenated in order, are exactly the elements (or
\* pairs) of the payload in their original order.
C3_ChunkCompleteness ==
    called \in TokenChunkers => Flatten(chunks) = payload.items

C3_Witness ==
    /\ called = "check_and_split_json_input"
    /\ Len(chunks) >= 2
    /\ \E c \in 1..Len(chunks) : Len(chunks[c]) >= 2

\* C4: every chunk returned by split_json_array, split_json_object and
\* split_data_by_tokens costs at most the budget, unless it holds exactly one
\* element that exceeds the budget alone (read in the claim's favour: alone
\* as a chunk, brackets included).
C4_ChunkWithinBudget ==
    called \in {"split_json_array", "split_json_object", "split_data_by_tokens"} =>
        \A c \in 1..Len(chunks) :
            \/ ChunkCost(chunks[c]) <= budget
            \/ Len(chunks[c]) = 1 /\ ChunkCost(<<chunks[c][1]>>) > budget

(***************************************************************************)
(* SpecParse: one call of graceful_json_parse.  The text is a body of at   *)
(* most MaxText lexemes, bare or wrapped the way completion models wrap    *)
(* their answers (a fenced block, a leading language tag).                 *)
(***************************************************************************)
Lexemes == {"[", "]", "{", "}", "1", "big", "null", "x", "nl"}

Wrappings ==
    {<< <<>>, <<>> >>,
     << <<"fence", "json", "nl">>, <<"nl", "fence">> >>,
     << <<"fence", "nl">>, <<"nl", "fence">> >>,
     << <<"json", "nl">>, <<>> >>}

Texts == {w[1] \o b \o w[2] : w \in Wrappings, b \in SeqsUpTo(Lexemes, MaxText)}

ParseInputs ==
    {[type |-> "str", text |-> t, template |-> tp] :
        t \in Texts, tp \in {"none", "given"}}
    \cup {[type |-> "None", text |-> <<>>, template |-> tp] : tp \in {"none", "given"}}
    \cup {[type |-> "value", text |-> t, template |-> "given"] :
            t \in {<<"[", "]">>, <<"{", "}">>, <<"[", "{", "}", "]">>}}

InitParse ==
    /\ raw \in ParseInputs
    /\ parsed = Pending
    /\ ValidateIdle
    /\ ChunkIdle
    /\ StageIdle

CallGracefulParse ==
    /\ parsed = Pending
    /\ parsed' = graceful_json_parse(raw, "ctx")
    /\ UNCHANGED <<raw, args, entries, chunkVars, stageVars>>

\* the value a call returned, handed to graceful_json_parse once more
AsData(value, template) ==
    [type |-> "value", text |-> value.text, template |-> template]

\* a second call on the list or mapping the first call returned
CallGracefulParseAgain ==
    /\ parsed # Pending
    /\ parsed.kind \in {"list", "dict"}
    /\ raw' = AsData(parsed, raw.template)
    /\ parsed' = graceful_json_parse(AsData(parsed, raw.template), "ctx")
    /\ UNCHANGED <<args, entries, chunkVars, stageVars>>

NextParse == CallGracefulParse \/ CallGracefulParseAgain

SpecParse == InitParse /\ [][NextParse]_vars

\* C6: for every text input graceful_json_parse returns a structured value,
\* a list or a mapping, and does not raise.
C6_ParseStructured ==
    (parsed # Pending /\ raw.type = "str") => parsed.kind \in {"list", "dict"}

(***************************************************************************)
(* SpecValidate: one call of extract_valid_entries.                        *)
(***************************************************************************)
MaxEntries == 2    \* longest list handed to the validator
MaxFields == 2     \* longest required_fields

\* the keys of the items and the names that can be required: "b" is a key
\* of no item
ItemKeys == {"a", "_validated"}

Mappings == UNION {[D -> {"text", "empty", "true"}] : D \in SUBSET ItemKeys}

Items ==
    {[kind |-> "dict", fields |-> f] : f \in Mappings}
    \cup {[kind |-> "scalar", fields |-> <<>>]}

ValidateInputs ==
    {[data |-> d, required_fields |-> rf] :
        d \in {[kind |-> k, items |-> <<>>] : k \in {"None", "scalar"}}
              \cup {[kind |-> "dict", items |-> <<[kind |-> "dict", fields |-> f]>>] :
                       f \in Mappings}
              \cup {[kind |-> "list", items |-> l] : l \in SeqsUpTo(Items, MaxEntries)},
        rf \in {[kind |-> "None", names |-> <<>>]}
               \cup {[kind |-> "list", names |-> n] :
                        n \in SeqsUpTo(ItemKeys \cup {"b"}, MaxFields)}}

InitValidate ==
    /\ args \in ValidateInputs
    /\ entries = NotCalled
    /\ raw = NoText /\ parsed = Pending
    /\ ChunkIdle
    /\ StageIdle

CallExtractValidEntries ==
    /\ entries = NotCalled
    /\ entries' = extract_valid_entries_fields(args.data, args.required_fields)
    /\ args' = [args EXCEPT !.data.items =
                    items_after_call(args.data, args.required_fields)]
    /\ UNCHANGED <<raw, parsed, chunkVars, stageVars>>

SpecValidate == InitValidate /\ [][CallExtractValidEntries]_vars

\* the mappings among the items handed to the validator, in order
GivenDicts ==
    IF args.data.kind \in {"dict", "list"}
    THEN SelectSeq(args.data.items, LAMBDA item : item.kind = "dict")
    ELSE <<>>

\* C13: extract_valid_entries returns a list with one record per mapping
\* handed to it (none for a value that is no list and no mapping); every
\* record holds every name of required_fields, a required field that was
\* missing or falsy holds "Unknown", every other field keeps its value, and
\* _validated is true.
C13_ValidatedEntries ==
    entries # NotCalled =>
        /\ Len(entries) = Len(GivenDicts)
        /\ \A i \in 1..Len(entries) :
              LET given == GivenDicts[i].fields
                  required == {args.required_fields.names[k] :
                                 k \in 1..Len(args.required_fields.names)}
              IN /\ DOMAIN entries[i] = DOMAIN given \cup required \cup {"_validated"}
                 /\ entries[i]["_validated"] = "true"
                 /\ \A n \in DOMAIN entries[i] \ {"_validated"} :
                       entries[i][n] =
                           IF n \in required
                              /\ (n \notin DOMAIN given \/ given[n] = "empty")
                           THEN "Unknown" ELSE given[n]

\* a list of two items, a scalar and a mapping whose field "a" is falsy,
\* validated against the names "a" and "b"
C13_Witness ==
    /\ entries # NotCalled
    /\ args.data.kind = "list" /\ Len(args.data.items) = 2
    /\ args.data.items[1].kind = "scalar"
    /\ args.data.items[2].kind = "dict"
    /\ DOMAIN args.data.items[2].fields = {"a"}
    /\ args.data.items[2].fields["a"] = "empty"
    /\ args.required_fields.names = <<"a", "b">>
    /\ Len(entries) = 1
    /\ entries[1]["a"] = "Unknown" /\ entries[1]["b"] = "Unknown"

(***************************************************************************)
(* Spec: one run of the stage graph of agent/workflow.py.                  *)
(*                                                                         *)
(* A record of an Aggregate is [key, phase, from, chunk, tags]: key stands *)
(* for its fields whose names do not start with an underscore, phase for   *)
(* the phase list that holds it (normalization only), tags is the set of   *)
(* its underscore fields, chunk the index its _batch or _chunk field (or,  *)
(* for a patent fallback, its title) names, 0 when it names none, and from *)
(* the position in work of the chunk that produced it (0: no chunk).       *)
(*                                                                         *)
(* A completion is [raises, text, body]: the call raises, or it returns a  *)
(* text; graceful_json_parse decides the shape of the parsed value from    *)
(* the text, and body is the content of that value.                        *)
(***************************************************************************)
MaxChunks  == 3    \* chunks (batches) of one stage's loop
MaxRecords == 2    \* mappings in one completion's list

NodeOrder ==
    <<"analyze_patents_query", "scrape", "analyze_scraped_data",
      "normalize_data", "calculate_competitive_score_and_white_space_flags",
      "END">>

\* a graph whose edge from the extraction leads to the scoring
NextNode_SkipNormalize(n) ==
    IF n = "analyze_scraped_data"
    THEN "calculate_competitive_score_and_white_space_flags"
    ELSE NodeOrder[(CHOOSE j \in 1..Len(NodeOrder) : NodeOrder[j] = n) + 1]

NextNode(n) ==
    NodeOrder[(CHOOSE j \in 1..Len(NodeOrder) : NodeOrder[j] = n) + 1]

Targets == {"CD47", ""}

\* the exceptions the model distinguishes; all derive from Exception
Exceptions == {"ValueError", "TypeError", "RuntimeError"}

Rec(key, phase, from, chunk, tags) ==
    [key |-> key, phase |-> phase, from |-> from, chunk |-> chunk, tags |-> tags]

Tag(rec, tags) == [rec EXCEPT !.tags = @ \cup tags]

\* texts a completion returns: prose, a bare scalar, an empty list, a list
\* of mappings, and a mapping after a word of prose
ResponseTexts ==
    {<<"x">>, <<"1">>, <<"[", "]">>, <<"[", "{", "}", "]">>, <<"x", "{", "}">>}

\* the call site of graceful_json_parse in a stage: the parsed value is
\* [kind, items, parsing_error]; when every strategy failed it is the copy
\* of the template with the parser's three fields added
ParsedList(p, template, items) ==
    IF p.parsing_error
    THEN [kind |-> "dict", parsing_error |-> TRUE,
          items |-> <<Tag(template,
              {"_parsing_error", "_context", "_original_data_preview"})>>]
    ELSE [kind |-> p.kind, parsing_error |-> FALSE, items |-> items]

ParseChunk(r, template, context, items) ==
    ParsedList(graceful_json_parse(
                   [type |-> "str", text |-> r.text, template |-> "given"], context),
               template, items)

\* extract_valid_entries: the mappings of a list, or the one mapping, each
\* copied and marked _validated; nothing for another value
extract_valid_entries(data) ==
    IF data.kind \notin {"list", "dict"} THEN <<>>
    ELSE [i \in 1..Len(data.items) |-> Tag(data.items[i], {"_validated"})]

\* the contents a completion of the given text can have, for the stages
\* whose answer is a list of records
BodiesOfList(p) ==
    IF p.parsing_error \/ p.kind \notin {"list", "dict"} THEN {<<>>}
    ELSE IF p.kind = "dict" THEN {<<"A">>}
    ELSE IF p.text = <<"[", "]">> THEN {<<>>}
    ELSE {[i \in 1..n |-> "A"] : n \in 1..MaxRecords}

ListBodies(t) ==
    BodiesOfList(graceful_json_parse(
                     [type |-> "str", text |-> t, template |-> "given"], ""))

ListResponses ==
    {[raises |-> TRUE, text |-> <<>>, body |-> <<>>]}
    \cup UNION {{[raises |-> FALSE, text |-> t, body |-> b] : b \in ListBodies(t)} :
                  t \in ResponseTexts}

\* the completions of the patents prompt: those above, and a list of two
\* mappings of which the first has no publication_number (extract_valid_entries
\* sets it to "Unknown") and the second has another number
PatentResponses ==
    ListResponses
    \cup {[raises |-> FALSE, text |-> <<"[", "{", "}", "]">>, body |-> <<"Unknown", "B">>]}

\* a loop whose handler ends with break instead of continue
AfterChunk_Break(i, n, raised) == IF raised THEN n ELSE i + 1

\* for i, chunk in enumerate(chunks): the handler of a failing chunk ends
\* with continue, so the loop goes on with the next chunk either way
AfterChunk(i, n, raised) == i + 1

Paths ==
    {[chunked |-> FALSE, n |-> 1]}
    \cup {[chunked |-> TRUE, n |-> k] : k \in 1..MaxChunks}

MkWork(src, n) == [i \in 1..n |-> [src |-> src, batch |-> i]]

\* ---- what every stage start and return share
BeginLoop(path, items) ==
    /\ pc' = IF path.chunked THEN "loop" ELSE "single"
    /\ work' = items
    /\ idx' = 0 /\ acc' = NoAcc /\ calls' = <<>>
    /\ failed' = {} /\ garbled' = {}
    /\ output' = NoOut /\ ret' = "none"
    /\ UNCHANGED <<node, st, escaped, api>>

\* return {key: value, ...}: a mapping that does not take over the state
Return_Fresh(keys, value, how, msg, err) ==
    /\ output' = value
    /\ ret' = how
    /\ st' = [st EXCEPT !.keys = keys,
                        !.set_by = [k \in keys |-> node],
                        !.message = msg, !.error = err]
    /\ node' = NextNode(node)
    /\ pc' = "entry"
    /\ escaped' = escaped

\* return {**state, key: value, ...}, with message and error when the
\* return statement sets them; set_by tells for every key the node whose
\* return gave the key its value
Return(keys, value, how, msg, err) ==
    /\ output' = value
    /\ ret' = how
    /\ st' = [st EXCEPT !.keys = @ \cup keys,
                        !.set_by = [k \in st.keys \cup keys |->
                                       IF k \in keys THEN node ELSE st.set_by[k]],
                        !.message = @ \/ msg, !.error = @ \/ err]
    /\ node' = NextNode(node)
    /\ pc' = "entry"
    /\ escaped' = escaped

\* an exception that no handler of the stage function catches
Escape ==
    /\ escaped' = TRUE
    /\ node' = "END" /\ pc' = "entry"
    /\ UNCHANGED <<st, output, ret>>

ClearLoop ==
    /\ work' = <<>> /\ idx' = 0 /\ acc' = NoAcc /\ calls' = <<>>
    /\ failed' = {} /\ garbled' = {}
    /\ api' = api

(***************************************************************************)
(* The completion call.  The outcome of one invocation of chain.invoke is  *)
(* "ok", "rate_limit" (an exception whose text holds rate_limit_exceeded   *)
(* or 429) or "error" (any other exception); a script lists the outcomes   *)
(* the successive invocations of one call site would have.  A trace lists  *)
(* what the call site did: invocations and sleeps with their seconds.      *)
(***************************************************************************)
MIN_DELAY_BETWEEN_REQUESTS == 2
RateLimitCooldown == 30

Outcomes == {"ok", "rate_limit", "error"}

Scripts == [1..2 -> Outcomes]

Invoke == [ev |-> "invoke", wait |-> 0]

Sleep(seconds) == [ev |-> "sleep", wait |-> seconds]

\* a wrapper that retries after any exception
rate_limited_api_call_RetryAny(script) ==
    IF script[1] = "ok"
    THEN [site |-> "rate_limited_api_call", first |-> script[1], retry |-> "none",
          trace |-> <<Invoke, Sleep(MIN_DELAY_BETWEEN_REQUESTS)>>, raised |-> FALSE]
    ELSE [site |-> "rate_limited_api_call", first |-> script[1], retry |-> script[2],
          trace |-> <<Invoke, Sleep(RateLimitCooldown), Invoke>>,
          raised |-> script[2] # "ok"]

\* rate_limited_api_call(func, ...): the call, then the minimum delay; on a
\* rate-limit exception the cooldown and a second call, whose result or
\* exception is the wrapper's; any other exception is raised again
rate_limited_api_call(script) ==
    IF script[1] = "ok"
    THEN [site |-> "rate_limited_api_call", first |-> script[1], retry |-> "none",
          trace |-> <<Invoke, Sleep(MIN_DELAY_BETWEEN_REQUESTS)>>, raised |-> FALSE]
    ELSE IF script[1] = "rate_limit"
    THEN [site |-> "rate_limited_api_call", first |-> script[1], retry |-> script[2],
          trace |-> <<Invoke, Sleep(RateLimitCooldown), Invoke>>,
          raised |-> script[2] # "ok"]
    ELSE [site |-> "rate_limited_api_call", first |-> script[1], retry |-> "none",
          trace |-> <<Invoke>>, raised |-> TRUE]

\* chain.invoke(...) called directly inside the try block of a stage
chain_invoke(script) ==
    [site |-> "chain.invoke", first |-> script[1], retry |-> "none",
     trace |-> <<Invoke>>, raised |-> script[1] # "ok"]

\* the pace of a trace that starts rested or not: an invocation is hasty
\* when no sleep of the minimum delay or more lies between it and the
\* invocation before it
RECURSIVE Pace(_, _, _)
Pace(trace, rested, hasty) ==
    IF trace = <<>> THEN [rested |-> rested, hasty |-> hasty]
    ELSE IF Head(trace).ev = "invoke"
    THEN Pace(Tail(trace), FALSE, hasty \/ ~rested)
    ELSE Pace(Tail(trace),
              rested \/ Head(trace).wait >= MIN_DELAY_BETWEEN_REQUESTS, hasty)

\* the call site ran as call tells and gave the completion r
Called(call, r) ==
    /\ call.raised = r.raises
    /\ api' = [site |-> call.site, first |-> call.first, retry |-> call.retry,
               trace |-> call.trace, raised |-> call.raised,
               rested |-> Pace(call.trace, api.rested, api.hasty).rested,
               hasty |-> Pace(call.trace, api.rested, api.hasty).hasty]

(***************************************************************************)
(* agent/nodes/analyze_patents_query.py                                    *)
(***************************************************************************)
\* except Exception as e: of analyze_patents_query
patents_except(e) == e \in Exceptions

PatentsCritical ==
    [type |-> "list",
     recs |-> <<Rec("Critical", "", 0, 0, {"_critical_error", "_error_message"})>>]

PatentsStart ==
    /\ node = "analyze_patents_query" /\ pc = "entry"
    /\ \E path \in Paths, e \in Exceptions \cup {"none"} :
          IF st.target = "" \/ e # "none"
          THEN LET exc == IF st.target = "" THEN "ValueError" ELSE e
               IN /\ IF patents_except(exc)
                     THEN Return({"patents_query_result"}, PatentsCritical,
                                 "except", TRUE, TRUE)
                     ELSE Escape
                  /\ ClearLoop
          ELSE BeginLoop(path, MkWork("Patents Query", path.n))
    /\ UNCHANGED <<chunkVars, parseVars>>

\* the body of the chunk loop: chunk i, its completion r and the value
\* graceful_json_parse made of it
PatentsChunkBody(r, i, parsed_chunk) ==
    /\ calls' = Append(calls, i)
    /\ IF r.raises
       THEN /\ acc' = [acc EXCEPT !.recs = Append(@,
                          Rec("Failed", "", i, i,
                              {"_processing_error", "_error_message"}))]
            /\ failed' = failed \cup {i}
            /\ garbled' = garbled
       ELSE /\ acc' = [acc EXCEPT !.recs = @ \o extract_valid_entries(parsed_chunk)]
            /\ failed' = failed
            /\ garbled' = IF parsed_chunk.parsing_error
                          THEN garbled \cup {i} ELSE garbled
    /\ idx' = AfterChunk(idx, Len(work), r.raises)

PatentsChunk ==
    /\ node = "analyze_patents_query" /\ pc = "loop" /\ idx < Len(work)
    /\ \E r \in PatentResponses, script \in Scripts :
          /\ Called(chain_invoke(script), r)
          /\ PatentsChunkBody(r, idx + 1,
                 ParseChunk(r, Rec("Unknown", "", idx + 1, 0, {}), "Patents Query Chunk",
                     [k \in 1..Len(r.body) |-> Rec(r.body[k], "", idx + 1, 0, {})]))
    /\ UNCHANGED <<node, pc, st, output, ret, work, escaped, chunkVars, parseVars>>

PatentsReturn ==
    /\ node = "analyze_patents_query" /\ pc = "loop" /\ idx >= Len(work)
    /\ Return({"patents_query_result"}, [type |-> "list", recs |-> acc.recs],
              "chunked", FALSE, FALSE)
    /\ UNCHANGED <<work, idx, acc, calls, failed, garbled, api, chunkVars, parseVars>>

\* the single call: its completion r, the parsed value and the result
PatentsSingleBody(r, parsed_result, final) ==
    /\ calls' = <<1>>
    /\ idx' = 1
    /\ acc' = [acc EXCEPT !.recs = final]
    /\ failed' = IF r.raises THEN {1} ELSE {}
    /\ garbled' = IF ~r.raises /\ parsed_result.parsing_error THEN {1} ELSE {}
    /\ Return({"patents_query_result"}, [type |-> "list", recs |-> final],
              "single", FALSE, FALSE)

PatentsSingleResult(r, parsed_result) ==
    PatentsSingleBody(r, parsed_result,
        IF r.raises
        THEN <<Rec("Failed", "", 1, 0, {"_processing_error", "_error_message"})>>
        ELSE extract_valid_entries(parsed_result))

PatentsSingle ==
    /\ node = "analyze_patents_query" /\ pc = "single"
    /\ \E r \in PatentResponses, script \in Scripts :
          /\ Called(chain_invoke(script), r)
          /\ PatentsSingleResult(r,
                 ParseChunk(r, Rec("Unknown", "", 1, 0, {}), "Patents Query",
                     [k \in 1..Len(r.body) |-> Rec(r.body[k], "", 1, 0, {})]))
    /\ UNCHANGED <<work, chunkVars, parseVars>>

(***************************************************************************)
(* agent/nodes/scraper_tool.py                                             *)
(***************************************************************************)
PubmedBatchSize == 15
PatentBatchSize == 10
ClinicalBudget  == 6000

\* lengths of a scraped list: empty, whole batches, and one element more
ListLens(size) ==
    {0} \cup {k * size : k \in 1..MaxChunks}
        \cup {k * size + 1 : k \in 0..(MaxChunks - 1)}

\* item.get("publication_number"): the entries made for a failed chunk and
\* for a failed stage hold "Unknown"
publication_number(item) ==
    IF item.key \in {"Failed", "Critical"} THEN "Unknown" ELSE item.key

\* a filter that only drops the entries without a publication number
extract_publication_numbers_KeepUnknown(data) ==
    IF data.type # "list" THEN <<>>
    ELSE LET valid == SelectSeq(data.recs, LAMBDA r : publication_number(r) # "")
         IN [i \in 1..Len(valid) |-> publication_number(valid[i])]

\* extract_publication_numbers: the publication_number of every entry
\* where it is set and is not "Unknown", in the order of the entries
extract_publication_numbers(data) ==
    IF data.type # "list" THEN <<>>
    ELSE LET valid == SelectSeq(data.recs,
                          LAMBDA r : publication_number(r) \notin {"", "Unknown"})
         IN [i \in 1..Len(valid) |-> publication_number(valid[i])]

\* fetch_clinicaltrials_data: None on a request error, the response mapping
\* otherwise (tokens: its estimate_tokens); [] when the fetch raised
ClinicalPayloads ==
    {[kind |-> "None", tokens |-> 0], [kind |-> "empty", tokens |-> 0]}
    \cup {[kind |-> "dict", tokens |-> t] : t \in {ClinicalBudget, ClinicalBudget + 1}}

\* fetch_euctr_data: [] on a request error, the bound method response.json
\* otherwise
EuctrPayloads == {[kind |-> "empty", tokens |-> 0], [kind |-> "method", tokens |-> 1]}

ListPayloads(size) == {[kind |-> "list", len |-> n] : n \in ListLens(size)}

NonePayload == [kind |-> "None", len |-> 0]

Truthy(p) ==
    /\ p.kind \notin {"None", "empty"}
    /\ p.kind = "list" => p.len > 0

\* split_data_by_tokens on a value that is neither a string nor a list, as
\* process_clinical_euctr_batch calls it: the batches are named by their index
split_whole(data, max_tokens_per_batch) ==
    IF ~Truthy(data) THEN <<>>
    ELSE IF data.tokens <= max_tokens_per_batch THEN <<data>> ELSE <<>>

\* split_pubmed_data / split_patent_abstracts_data on a list: the slices
\* data[i:i + batch_size], each given by its length
split_pubmed_data(data, batch_size) ==
    IF ~Truthy(data) THEN <<>>
    ELSE [i \in 1..((data.len + batch_size - 1) \div batch_size) |->
             [kind |-> "list",
              len |-> IF i * batch_size <= data.len THEN batch_size
                      ELSE data.len - (i - 1) * batch_size]]

split_patent_abstracts_data(data, batch_size) == split_pubmed_data(data, batch_size)

\* the batches analyze_scrapped_data will make of the four payloads
BatchesOf(s) ==
    [clinical  |-> IF Truthy(s.clinical) \/ Truthy(s.euctr)
                   THEN split_whole(s.clinical, ClinicalBudget) ELSE <<>>,
     euctr     |-> IF Truthy(s.clinical) \/ Truthy(s.euctr)
                   THEN split_whole(s.euctr, ClinicalBudget) ELSE <<>>,
     pubmed    |-> split_pubmed_data(s.pubmed, PubmedBatchSize),
     abstracts |-> split_patent_abstracts_data(s.abstracts, PatentBatchSize)]

BatchCount(s) ==
    Len(BatchesOf(s).clinical) + Len(BatchesOf(s).euctr)
    + Len(BatchesOf(s).pubmed) + Len(BatchesOf(s).abstracts)

ScrapedKeys ==
    {"clinical_trials_scraped_data", "euctr_scraped_data", "pubmed_scraped_data",
     "google_patent_abstracts"}

\* what a fetch function can do inside scraper_tool: return a payload, or
\* raise an exception that its own handler does not name
Raise == [kind |-> "raise"]

\* the value a source has before its try block, and after its handler
EmptyPayload(i) ==
    IF i = 3 THEN [kind |-> "list", len |-> 0] ELSE [kind |-> "empty", tokens |-> 0]

\* one try block around the three fetches: a raise leaves the later
\* sources empty as well
try_fetch_OneTry(fetched, i) ==
    IF \E j \in 1..i : fetched[j] = Raise THEN EmptyPayload(i) ELSE fetched[i]

\* try: data = fetch(target) / except Exception: data = [], for the i-th of
\* the fetches of clinical trials, EUCTR and PubMed
try_fetch(fetched, i) ==
    IF fetched[i] = Raise THEN EmptyPayload(i) ELSE fetched[i]

\* scraper_tool; afterwards calls lists the fetches made, failed those that
\* raised, output.fetched what each of them did, and output.numbers the
\* publication numbers extract_publication_abstracts was called with (none
\* when it was not called)
scraper_tool ==
    /\ node = "scrape" /\ pc = "entry"
    /\ \E c \in (ClinicalPayloads \ {EmptyPayload(1)}) \cup {Raise},
          e \in EuctrPayloads \cup {Raise},
          p \in ListPayloads(PubmedBatchSize) \cup {Raise},
          a \in ListPayloads(PatentBatchSize) \cup {NonePayload} :
          LET publication_numbers == extract_publication_numbers(output)
              google_patent_abstracts ==
                  IF Len(publication_numbers) > 0 THEN a
                  ELSE [kind |-> "list", len |-> 0]
              fetched == IF st.target = "" THEN <<>> ELSE <<c, e, p>>
              scraped ==
                  IF st.target = ""
                  THEN [type |-> "scraped",
                        clinical |-> EmptyPayload(1),
                        euctr |-> EmptyPayload(2),
                        pubmed |-> EmptyPayload(3),
                        abstracts |-> google_patent_abstracts,
                        fetched |-> fetched,
                        numbers |-> publication_numbers]
                  ELSE [type |-> "scraped",
                        clinical |-> try_fetch(fetched, 1),
                        euctr |-> try_fetch(fetched, 2),
                        pubmed |-> try_fetch(fetched, 3),
                        abstracts |-> google_patent_abstracts,
                        fetched |-> fetched,
                        numbers |-> publication_numbers]
          IN /\ BatchCount(scraped) <= MaxChunks
             /\ Return(ScrapedKeys, scraped, "return", st.target = "", FALSE)
             /\ calls' = [i \in 1..Len(fetched) |-> i]
             /\ failed' = {i \in 1..Len(fetched) : fetched[i] = Raise}
    /\ work' = <<>> /\ idx' = 0 /\ acc' = NoAcc /\ garbled' = {}
    /\ api' = api
    /\ UNCHANGED <<chunkVars, parseVars>>

(***************************************************************************)
(* agent/nodes/analyze_scrapped_data.py                                    *)
(***************************************************************************)
FallbackTags == {"_fallback_entry", "_target", "_source"}

\* create_fallback_clinical_entry(target_molecule, source)
create_fallback_clinical_entry(from) == Rec("Unknown", "", from, 0, FallbackTags)

\* the sources whose failing batch is tagged with its index
Indexed(src) == src \in {"Clinical Trials", "EUCTR"}

\* combine_results: every batch result is a record (a non-empty mapping),
\* appended in order
combine_results(batch_results) == batch_results

\* except Exception as e: of analyze_scrapped_data
extract_except(e) == e \in Exceptions

ExtractCritical ==
    [type |-> "list",
     recs |-> <<Tag(create_fallback_clinical_entry(0),
                    {"_critical_error", "_error_message"})>>]

ExtractStart ==
    /\ node = "analyze_scraped_data" /\ pc = "entry"
    /\ \E e \in Exceptions \cup {"none"} :
          IF e # "none"
          THEN /\ IF extract_except(e)
                  THEN Return({"extracted_info"}, ExtractCritical, "except",
                              TRUE, TRUE)
                  ELSE Escape
               /\ ClearLoop
          ELSE LET b == BatchesOf(output)
               IN BeginLoop([chunked |-> TRUE, n |-> BatchCount(output)],
                      MkWork("Clinical Trials", Len(b.clinical))
                      \o MkWork("EUCTR", Len(b.euctr))
                      \o MkWork("PubMed", Len(b.pubmed))
                      \o MkWork("Patent Abstracts", Len(b.abstracts)))
    /\ UNCHANGED <<chunkVars, parseVars>>

\* the entry a batch function returns from its except clause
fallback_entry(i, item) ==
    [Tag(create_fallback_clinical_entry(i),
         {"_processing_error", "_error_message"}
         \cup IF Indexed(item.src) THEN {"_batch"} ELSE {})
     EXCEPT !.chunk = IF Indexed(item.src) THEN item.batch ELSE 0]

\* the prompt slot a source's batch is passed in
SlotOf(src) ==
    IF src = "Clinical Trials" THEN "clinical_trials_scraped_data"
    ELSE IF src = "EUCTR" THEN "euctr_scraped_data"
    ELSE IF src = "PubMed" THEN "pubmed_scraped_data"
    ELSE "google_patent_abstracts"

\* a call that passes a clinical-trial batch in the EUCTR slot as well
invoke_input_Shared(item) ==
    [slot \in ScrapedKeys |->
        IF slot = SlotOf(item.src)
           \/ (item.src = "Clinical Trials" /\ slot = "euctr_scraped_data")
        THEN "batch" ELSE ""]

\* the mapping handed to chain.invoke for a batch: the batch in the slot of
\* its source, "" in the three others
invoke_input(item) ==
    [slot \in ScrapedKeys |-> IF slot = SlotOf(item.src) THEN "batch" ELSE ""]

\* one batch: its index i, its completion r and the parsed value
ExtractBatchBody(r, i, parsed_result) ==
    /\ calls' = Append(calls, i)
    /\ IF r.raises
       THEN /\ acc' = [acc EXCEPT !.recs = Append(@, fallback_entry(i, work[i]))]
            /\ failed' = failed \cup {i}
            /\ garbled' = garbled
       ELSE /\ acc' = [acc EXCEPT !.recs =
                           @ \o extract_valid_entries(parsed_result)]
            /\ failed' = failed
            /\ garbled' = IF parsed_result.parsing_error
                          THEN garbled \cup {i} ELSE garbled
    /\ idx' = AfterChunk(idx, Len(work), r.raises)

ExtractBatch ==
    /\ node = "analyze_scraped_data" /\ pc = "loop" /\ idx < Len(work)
    /\ \E r \in ListResponses, script \in Scripts :
          /\ Called(rate_limited_api_call(script), r)
          /\ ExtractBatchBody(r, idx + 1,
                 ParseChunk(r, create_fallback_clinical_entry(idx + 1), work[idx + 1].src,
                     [k \in 1..Len(r.body) |-> Rec(r.body[k], "", idx + 1, 0, {})]))
    /\ UNCHANGED <<node, pc, st, output, ret, work, escaped, chunkVars, parseVars>>

\* a stage that leaves the list of the combined batch results as it is
ExtractResult_AsCombined(combined_results) == combined_results

\* if not combined_results: the list of one "No Data" fallback entry
ExtractResult(combined_results) ==
    IF combined_results = <<>>
    THEN <<create_fallback_clinical_entry(0)>>
    ELSE combined_results

ExtractReturn ==
    /\ node = "analyze_scraped_data" /\ pc = "loop" /\ idx >= Len(work)
    /\ Return({"extracted_info"},
              [type |-> "list",
               recs |-> ExtractResult(combine_results(acc.recs))],
              "chunked", FALSE, FALSE)
    /\ UNCHANGED <<work, idx, acc, calls, failed, garbled, api, chunkVars, parseVars>>

(***************************************************************************)
(* agent/nodes/normalize_data.py                                           *)
(*                                                                         *)
(* A normalized Aggregate is [keys, recs, tags]: the phase names that are  *)
(* keys of the mapping, the records of all its phase lists (each with its  *)
(* phase), and its own underscore fields.                                  *)
(***************************************************************************)
valid_phases == {"Preclinical", "Phase I", "Phase II", "Phase III", "Approved"}

\* create_fallback_normalized_data(target)
create_fallback_normalized_data(from) ==
    [type |-> "phases", keys |-> valid_phases, tags |-> {},
     recs |-> <<Rec("Unknown", "Preclinical", from, 0,
                    {"_fallback_entry", "_target"})>>]

\* validate_normalized_structure: the five phases, each entry rebuilt from
\* its seven standard fields and marked _validated
validate_normalized_structure(data) ==
    [type |-> "phases", keys |-> valid_phases, tags |-> {},
     recs |-> LET kept == SelectSeq(data.recs, LAMBDA r : r.phase \in valid_phases)
              IN [i \in 1..Len(kept) |-> [kept[i] EXCEPT !.tags = {"_validated"},
                                                       !.chunk = 0]]]

\* a removal that keeps the last record of each group of duplicates
remove_duplicates_in_phase_KeepLast(trials) ==
    LET last(i) == \A j \in (i + 1)..Len(trials) :
                       ~(trials[j].phase = trials[i].phase
                         /\ trials[j].key = trials[i].key)
        F[i \in 0..Len(trials)] ==
            IF i = 0 THEN <<>>
            ELSE IF last(i) THEN Append(F[i - 1], trials[i]) ELSE F[i - 1]
    IN F[Len(trials)]

\* remove_duplicates_in_phase, applied to every phase list: a record stays
\* when no earlier record of its phase has the same non-underscore fields
remove_duplicates_in_phase(trials) ==
    LET first(i) == \A j \in 1..(i - 1) :
                        ~(trials[j].phase = trials[i].phase
                          /\ trials[j].key = trials[i].key)
        F[i \in 0..Len(trials)] ==
            IF i = 0 THEN <<>>
            ELSE IF first(i) THEN Append(F[i - 1], trials[i]) ELSE F[i - 1]
    IN F[Len(trials)]

\* the mappings a completion of the normalization prompt can hold: one
\* phase list of n equal assets, one of two different assets, the five
\* phase lists, a sixth phase, no key
NormalizeDicts ==
    {[keys |-> {"Preclinical"}, recs |-> [i \in 1..n |-> [phase |-> "Preclinical", key |-> "A"]]] :
        n \in 1..MaxRecords}
    \cup {[keys |-> {"Preclinical"},
           recs |-> <<[phase |-> "Preclinical", key |-> "B"],
                      [phase |-> "Preclinical", key |-> "A"]>>],
          [keys |-> valid_phases, recs |-> <<[phase |-> "Phase I", key |-> "A"]>>],
          [keys |-> {"Phase IV"}, recs |-> <<[phase |-> "Phase IV", key |-> "A"]>>],
          [keys |-> {}, recs |-> <<>>]}

NoDict == [keys |-> {}, recs |-> <<>>]

BodiesOfNormalized(p) ==
    IF ~p.parsing_error /\ p.kind = "dict" THEN NormalizeDicts ELSE {NoDict}

NormalizeBodies(t) ==
    BodiesOfNormalized(graceful_json_parse(
                           [type |-> "str", text |-> t, template |-> "given"], ""))

NormalizeResponses ==
    {[raises |-> TRUE, text |-> <<>>, body |-> NoDict]}
    \cup UNION {{[raises |-> FALSE, text |-> t, body |-> b] : b \in NormalizeBodies(t)} :
                  t \in ResponseTexts}

\* the parsed answer of a chunk as [kind, parsing_error, keys, recs]
ParsedNormalized(p, r, from) ==
    IF p.parsing_error
    THEN [kind |-> "dict", parsing_error |-> TRUE,
          keys |-> valid_phases,
          recs |-> create_fallback_normalized_data(from).recs,
          tags |-> {"_parsing_error", "_context", "_original_data_preview"}]
    ELSE [kind |-> p.kind, parsing_error |-> FALSE,
          keys |-> r.body.keys,
          recs |-> [i \in 1..Len(r.body.recs) |->
                       Rec(r.body.recs[i].key, r.body.recs[i].phase, from, 0, {})],
          tags |-> {}]

ParseNormalized(r, context, from) ==
    ParsedNormalized(graceful_json_parse(
                         [type |-> "str", text |-> r.text, template |-> "given"],
                         context),
                     r, from)

\* except Exception as e: of normalize_data
normalize_except(e) == e \in Exceptions

Min(a, b) == IF a <= b THEN a ELSE b

NormalizeStart ==
    /\ node = "normalize_data" /\ pc = "entry"
    /\ \E path \in Paths, e \in Exceptions \cup {"none"} :
          LET extracted_info == output.recs
          IN IF extracted_info = <<>>
             THEN /\ Return({"normalized_data"}, create_fallback_normalized_data(0),
                            "early", FALSE, FALSE)
                  /\ ClearLoop
             ELSE IF e # "none"
             THEN /\ IF normalize_except(e)
                     THEN Return({"normalized_data"},
                                 [create_fallback_normalized_data(0) EXCEPT
                                     !.tags = {"_critical_error", "_error_message"}],
                                 "except", TRUE, TRUE)
                     ELSE Escape
                  /\ ClearLoop
             ELSE /\ path.n <= Len(extracted_info)
                  /\ BeginLoop(path, MkWork("Normalize Data", path.n))
    /\ UNCHANGED <<chunkVars, parseVars>>

\* one chunk: its index i, its completion r and the parsed value
NormalizeChunkBody(r, i, parsed_chunk) ==
    /\ calls' = Append(calls, i)
    /\ IF r.raises
       THEN /\ acc' = [keys |-> acc.keys \cup {"Preclinical"},
                       recs |-> Append(acc.recs,
                           Rec("Unknown", "Preclinical", i, i,
                               {"_processing_error", "_chunk", "_error_message"}))]
            /\ failed' = failed \cup {i}
            /\ garbled' = garbled
       ELSE /\ acc' = IF parsed_chunk.kind = "dict"
                      THEN [keys |-> acc.keys \cup parsed_chunk.keys,
                            recs |-> acc.recs \o parsed_chunk.recs]
                      ELSE [keys |-> acc.keys \cup {"Preclinical"},
                            recs |-> Append(acc.recs,
                                Rec("Unknown", "Preclinical", i, i,
                                    {"_processing_error", "_chunk"}))]
            /\ failed' = failed
            /\ garbled' = IF parsed_chunk.parsing_error
                          THEN garbled \cup {i} ELSE garbled
    /\ idx' = AfterChunk(idx, Len(work), r.raises)

NormalizeChunk ==
    /\ node = "normalize_data" /\ pc = "loop" /\ idx < Len(work)
    /\ \E r \in NormalizeResponses, script \in Scripts :
          /\ Called(chain_invoke(script), r)
          /\ NormalizeChunkBody(r, idx + 1,
                 ParseNormalized(r, "Normalize Data Chunk", idx + 1))
    /\ UNCHANGED <<node, pc, st, output, ret, work, escaped, chunkVars, parseVars>>

NormalizeReturn ==
    /\ node = "normalize_data" /\ pc = "loop" /\ idx >= Len(work)
    /\ Return({"normalized_data"},
              [type |-> "phases", keys |-> acc.keys, tags |-> {},
               recs |-> remove_duplicates_in_phase(acc.recs)],
              "chunked", FALSE, FALSE)
    /\ UNCHANGED <<work, idx, acc, calls, failed, garbled, api, chunkVars, parseVars>>

\* the single call: its completion r and the parsed value
NormalizeSingleBody(r, parsed_result) ==
    /\ calls' = <<1>>
    /\ idx' = 1
    /\ acc' = NoAcc
    /\ failed' = IF r.raises THEN {1} ELSE {}
    /\ garbled' = IF ~r.raises /\ parsed_result.parsing_error THEN {1} ELSE {}
    /\ Return({"normalized_data"},
              IF r.raises
              THEN [create_fallback_normalized_data(1) EXCEPT
                       !.tags = {"_processing_error", "_error_message"}]
              ELSE IF parsed_result.kind = "dict"
              THEN validate_normalized_structure(parsed_result)
              ELSE create_fallback_normalized_data(1),
              "single", FALSE, FALSE)

NormalizeSingle ==
    /\ node = "normalize_data" /\ pc = "single"
    /\ \E r \in NormalizeResponses, script \in Scripts :
          /\ Called(chain_invoke(script), r)
          /\ NormalizeSingleBody(r, ParseNormalized(r, "Normalize Data", 1))
    /\ UNCHANGED <<work, chunkVars, parseVars>>

(***************************************************************************)
(* agent/nodes/calculate_competitive_score.py                              *)
(*                                                                         *)
(* An analysis is [shape, error, dist, total, score, nan, hashable, tags,  *)
(* from, chunk]: shape is the kind of the parsed value, error tells that   *)
(* the mapping has an "error" key, dist is phase_distribution in the order *)
(* Preclinical, Phase I, Phase II, Phase III, Approved, score is           *)
(* crowding_score in thousandths (nan: the float is NaN), hashable tells   *)
(* that the items of its modalities and notable_acquisitions are hashable, *)
(* inf that a count of its phase_distribution is an infinite float (dist    *)
(* holds the counts that int() converts, 0 for the others).                *)
(***************************************************************************)
MaxCount == 60    \* largest phase count of a chunk result

max_saturation == 50

\* phase_weights, in tenths
phase_weights == <<2, 4, 6, 8, 10>>

RECURSIVE SumSeq(_)
SumSeq(s) == IF s = <<>> THEN 0 ELSE Head(s) + SumSeq(Tail(s))

ZeroDist == <<0, 0, 0, 0, 0>>

\* create_fallback_competitive_analysis(target_molecule)
create_fallback_competitive_analysis(from) ==
    [shape |-> "dict", error |-> FALSE, dist |-> ZeroDist, total |-> 0,
     score |-> 0, nan |-> FALSE, hashable |-> TRUE, inf |-> FALSE, tags |-> {},
     from |-> from, chunk |-> 0]

\* the validation without its last step, the comparison of the totals
validate_competitive_analysis_structure_NoTotal(data) ==
    [shape |-> "dict", error |-> FALSE, dist |-> data.dist,
     total |-> data.total,
     score |-> IF ~data.nan /\ (data.score < 0 \/ data.score > 1000)
               THEN 0 ELSE data.score,
     nan |-> data.nan, hashable |-> data.hashable, inf |-> FALSE, tags |-> {},
     from |-> data.from, chunk |-> 0]

\* validate_competitive_analysis_structure: the score outside [0, 1] is
\* reset to 0.0 (a NaN passes both comparisons), the total is replaced by
\* the sum of the distribution and flagged when they differ
validate_competitive_analysis_structure(data) ==
    LET calculated_total == SumSeq(data.dist)
    IN [shape |-> "dict", error |-> FALSE, dist |-> data.dist,
        total |-> calculated_total,
        score |-> IF ~data.nan /\ (data.score < 0 \/ data.score > 1000)
                  THEN 0 ELSE data.score,
        nan |-> data.nan, hashable |-> data.hashable, inf |-> FALSE,
        tags |-> IF data.total # calculated_total
                 THEN {"_total_competitors_corrected"} ELSE {},
        from |-> data.from, chunk |-> 0]

\* valid_chunks of combine_competitive_analysis_results
valid_chunks(chunk_results) ==
    SelectSeq(chunk_results, LAMBDA c : c.shape = "dict" /\ ~c.error)

RECURSIVE SumDist(_)
SumDist(cs) ==
    IF cs = <<>> THEN ZeroDist
    ELSE [p \in 1..5 |-> Head(cs).dist[p] + SumDist(Tail(cs))[p]]

\* a sum that gives every phase the weight 1.0
weighted_sum_Unweighted(dist) == SumSeq(dist) * 10

\* weighted_sum in tenths
weighted_sum(dist) == SumSeq([p \in 1..5 |-> dist[p] * phase_weights[p]])

\* round(min(weighted_sum / max_saturation, 1.0), 3) in thousandths: the
\* quotient has at most three decimals, so rounding changes nothing
crowding_score(dist) ==
    Min((weighted_sum(dist) * 100) \div max_saturation, 1000)

\* combine_competitive_analysis_results raises TypeError when a valid chunk
\* lists unhashable modalities or acquisitions (set.update, set(...)), and
\* OverflowError when a count is an infinite float: int(count) is guarded
\* by except (ValueError, TypeError) only
combine_raises(chunk_results) ==
    \E i \in 1..Len(valid_chunks(chunk_results)) :
        \/ ~valid_chunks(chunk_results)[i].hashable
        \/ valid_chunks(chunk_results)[i].inf

combine_competitive_analysis_results(chunk_results) ==
    IF valid_chunks(chunk_results) = <<>>
    THEN [create_fallback_competitive_analysis(0) EXCEPT !.tags = {"_combine_error"}]
    ELSE LET combined_phase_distribution == SumDist(valid_chunks(chunk_results))
         IN [shape |-> "dict", error |-> FALSE,
             dist |-> combined_phase_distribution,
             total |-> SumSeq(combined_phase_distribution),
             score |-> crowding_score(combined_phase_distribution),
             nan |-> FALSE, hashable |-> TRUE, inf |-> FALSE, tags |-> {},
             from |-> 0, chunk |-> 0]

\* the mappings a completion of the scoring prompt can hold
ScoreDict(error, dist, total, score, nan, hashable) ==
    [error |-> error, dist |-> dist, total |-> total, score |-> score,
     nan |-> nan, hashable |-> hashable, inf |-> FALSE]

ScoreDicts ==
    {ScoreDict(FALSE, <<1, 0, 0, 0, 2>>, 3, 44, FALSE, TRUE),
     ScoreDict(FALSE, <<9, 14, 9, 6, 1>>, 38, 372, FALSE, TRUE),
     ScoreDict(FALSE, <<0, 0, 0, 0, MaxCount>>, MaxCount, 1000, FALSE, TRUE),
     ScoreDict(FALSE, <<-1, 0, 0, 0, 0>>, -1, 0, FALSE, TRUE),
     ScoreDict(FALSE, <<1, 1, 0, 0, 0>>, 7, 1500, FALSE, TRUE),
     ScoreDict(FALSE, <<1, 0, 0, 0, 0>>, 1, 4, TRUE, TRUE),
     ScoreDict(FALSE, <<1, 0, 0, 0, 0>>, 1, 4, FALSE, FALSE),
     ScoreDict(TRUE, ZeroDist, 0, 0, FALSE, TRUE),
     [ScoreDict(FALSE, <<2, 0, 0, 0, 0>>, 2, 8, FALSE, TRUE) EXCEPT !.inf = TRUE]}

NoScore == ScoreDict(FALSE, ZeroDist, 0, 0, FALSE, TRUE)

BodiesOfScore(p) ==
    IF ~p.parsing_error /\ p.kind = "dict" THEN ScoreDicts ELSE {NoScore}

ScoreBodies(t) ==
    BodiesOfScore(graceful_json_parse(
                      [type |-> "str", text |-> t, template |-> "given"], ""))

ScoreResponses ==
    {[raises |-> TRUE, text |-> <<>>, body |-> NoScore]}
    \cup UNION {{[raises |-> FALSE, text |-> t, body |-> b] : b \in ScoreBodies(t)} :
                  t \in ResponseTexts}

\* the parsed answer of a chunk: the template copy with the parser's fields
\* when no strategy parsed the text
ParsedAnalysis(p, r, from) ==
    IF p.parsing_error
    THEN [create_fallback_competitive_analysis(from) EXCEPT
             !.tags = {"_parsing_error", "_context", "_original_data_preview"}]
    ELSE [shape |-> p.kind, error |-> r.body.error, dist |-> r.body.dist,
          total |-> r.body.total, score |-> r.body.score, nan |-> r.body.nan,
          hashable |-> r.body.hashable, inf |-> r.body.inf, tags |-> {},
          from |-> from, chunk |-> 0]

ParseAnalysis(r, context, from) ==
    ParsedAnalysis(graceful_json_parse(
                       [type |-> "str", text |-> r.text, template |-> "given"],
                       context),
                   r, from)

\* a handler that names one exception class only
score_except_ValueError(e) == e = "ValueError"

\* except Exception as e: of calculate_competitive_score_and_white_space_flags
score_except(e) == e \in Exceptions

ScoreCritical ==
    [create_fallback_competitive_analysis(0) EXCEPT
        !.tags = {"_critical_error", "_error_message"}]

Analysis(a) == [type |-> "analysis", value |-> a]

ScoreStart ==
    /\ node = "calculate_competitive_score_and_white_space_flags" /\ pc = "entry"
    /\ \E path \in Paths, e \in Exceptions \cup {"none"} :
          LET normalized_data == output
          IN IF normalized_data.keys = {} /\ normalized_data.tags = {}
             THEN /\ Return({"competitive_analysis"},
                            Analysis(create_fallback_competitive_analysis(0)),
                            "early", FALSE, FALSE)
                  /\ ClearLoop
             ELSE IF e # "none"
             THEN /\ IF score_except(e)
                     THEN Return({"competitive_analysis"}, Analysis(ScoreCritical),
                                 "except", TRUE, TRUE)
                     ELSE Escape
                  /\ ClearLoop
             ELSE /\ path.n <= Cardinality(normalized_data.keys)
                               + Cardinality(normalized_data.tags)
                  /\ BeginLoop(path, MkWork("Competitive Analysis", path.n))
    /\ UNCHANGED <<chunkVars, parseVars>>

\* the result the loop stores for a chunk whose call raised
fallback_chunk(i) ==
    [create_fallback_competitive_analysis(i) EXCEPT
        !.tags = {"_processing_error", "_chunk", "_error_message"},
        !.chunk = i]

\* one chunk: its index i, its completion r and the parsed value
ScoreChunkBody(r, i, parsed_chunk) ==
    /\ calls' = Append(calls, i)
    /\ IF r.raises
       THEN /\ acc' = [acc EXCEPT !.recs = Append(@, fallback_chunk(i))]
            /\ failed' = failed \cup {i}
            /\ garbled' = garbled
       ELSE /\ acc' = [acc EXCEPT !.recs = Append(@, parsed_chunk)]
            /\ failed' = failed
            /\ garbled' = IF "_parsing_error" \in parsed_chunk.tags
                          THEN garbled \cup {i} ELSE garbled
    /\ idx' = AfterChunk(idx, Len(work), r.raises)

ScoreChunk ==
    /\ node = "calculate_competitive_score_and_white_space_flags"
    /\ pc = "loop" /\ idx < Len(work)
    /\ \E r \in ScoreResponses, script \in Scripts :
          /\ Called(chain_invoke(script), r)
          /\ ScoreChunkBody(r, idx + 1,
                 ParseAnalysis(r, "Competitive Analysis Chunk", idx + 1))
    /\ UNCHANGED <<node, pc, st, output, ret, work, escaped, chunkVars, parseVars>>

ScoreReturn ==
    /\ node = "calculate_competitive_score_and_white_space_flags"
    /\ pc = "loop" /\ idx >= Len(work)
    /\ IF combine_raises(acc.recs)
       THEN IF score_except("TypeError")
            THEN Return({"competitive_analysis"}, Analysis(ScoreCritical),
                        "except", TRUE, TRUE)
            ELSE Escape
       ELSE Return({"competitive_analysis"},
                   Analysis(combine_competitive_analysis_results(acc.recs)),
                   "chunked", FALSE, FALSE)
    /\ UNCHANGED <<work, idx, acc, calls, failed, garbled, api, chunkVars, parseVars>>

\* the single call: its completion r and the parsed value; the handler of
\* the call also catches what the validation raises on an infinite count
ScoreSingleBody(r, parsed_result) ==
    /\ calls' = <<1>>
    /\ idx' = 1
    /\ acc' = IF r.raises THEN NoAcc
               ELSE [acc EXCEPT !.recs = <<parsed_result>>]
    /\ failed' = IF r.raises THEN {1} ELSE {}
    /\ garbled' = IF ~r.raises /\ "_parsing_error" \in parsed_result.tags
                  THEN {1} ELSE {}
    /\ Return({"competitive_analysis"},
              Analysis(IF r.raises \/ (parsed_result.shape = "dict" /\ parsed_result.inf)
                       THEN [create_fallback_competitive_analysis(1) EXCEPT
                                !.tags = {"_processing_error", "_error_message"}]
                       ELSE IF parsed_result.shape = "dict"
                       THEN validate_competitive_analysis_structure(parsed_result)
                       ELSE create_fallback_competitive_analysis(1)),
              "single", FALSE, FALSE)

ScoreSingle ==
    /\ node = "calculate_competitive_score_and_white_space_flags" /\ pc = "single"
    /\ \E r \in ScoreResponses, script \in Scripts :
          /\ Called(chain_invoke(script), r)
          /\ ScoreSingleBody(r, ParseAnalysis(r, "Competitive Analysis", 1))
    /\ UNCHANGED <<work, chunkVars, parseVars>>

(***************************************************************************)
(* The run: competitive_score(target) invokes the compiled graph on the    *)
(* initial state, whose only value is the target.                          *)
(***************************************************************************)
Init ==
    /\ ChunkIdle
    /\ ParseIdle
    /\ node = "analyze_patents_query" /\ pc = "entry"
    /\ st \in {[target |-> t, keys |-> {}, set_by |-> [k \in {} |-> ""],
                 message |-> FALSE, error |-> FALSE] :
                  t \in Targets}
    /\ output = NoOut /\ ret = "none"
    /\ work = <<>> /\ idx = 0 /\ acc = NoAcc /\ calls = <<>>
    /\ failed = {} /\ garbled = {} /\ escaped = FALSE
    /\ api = NoCall

Next ==
    \/ PatentsStart
    \/ PatentsChunk
    \/ PatentsReturn
    \/ PatentsSingle
    \/ scraper_tool
    \/ ExtractStart
    \/ ExtractBatch
    \/ ExtractReturn
    \/ NormalizeStart
    \/ NormalizeChunk
    \/ NormalizeReturn
    \/ NormalizeSingle
    \/ ScoreStart
    \/ ScoreChunk
    \/ ScoreReturn
    \/ ScoreSingle

Spec == Init /\ [][Next]_vars

(***************************************************************************)
(* Properties of the stages (Spec).                                        *)
(***************************************************************************)
\* a stage with a completion loop has just returned from its chunked or
\* its single-call path; the loop's variables still describe its run
LoopReturned == pc = "entry" /\ ret \in {"chunked", "single"} /\ ~escaped

\* the boolean fields that mark a record or an Aggregate as a fallback
ErrorMarkers ==
    {"_processing_error", "_parsing_error", "_critical_error", "_combine_error",
     "_fallback_entry"}

\* the records of the output of the stage that returned; for the scoring
\* stage, whose output is one summary, the chunk results it aggregated
StageRecords ==
    IF output.type \in {"list", "phases"} THEN output.recs
    ELSE IF output.type = "analysis"
    THEN IF ret = "chunked" THEN acc.recs ELSE <<output.value>>
    ELSE <<>>

\* C1: when a stage returns, every chunk whose external call raised has
\* exactly one record in the stage's output, and that record carries an
\* error marker (in every stage, however many chunks failed, and after the
\* normalization stage removed duplicates).
C1_OneRecordPerFailedChunk ==
    LoopReturned =>
        \A p \in failed :
            LET mine == SelectSeq(StageRecords, LAMBDA r : r.from = p)
            IN Len(mine) = 1 /\ mine[1].tags \cap ErrorMarkers # {}

\* C5: a failing chunk never ends the loop: inside a loop the calls issued
\* so far are those of chunks 1..idx in order, and a stage that returns from
\* its loop has issued the call of every chunk it produced, in chunk order.
C5_FailureDoesNotAbort ==
    /\ (pc = "loop" /\ ~escaped) => calls = [i \in 1..idx |-> i]
    /\ (pc = "entry" /\ ret = "chunked" /\ ~escaped) =>
          /\ idx = Len(work)
          /\ calls = [i \in 1..Len(work) |-> i]

C5_Witness ==
    /\ pc = "entry" /\ ret = "chunked"
    /\ Len(work) = MaxChunks
    /\ 1 \in failed /\ 2 \in garbled
    /\ calls = [i \in 1..MaxChunks |-> i]

C8_ScoreInUnitInterval ==
    (node = "END" /\ ~escaped) =>
        /\ ~output.value.nan
        /\ 0 <= output.value.score /\ output.value.score <= 1000

\* the state keys a node writes on every return
OutputKeys(n) ==
    IF n = "analyze_patents_query" THEN {"patents_query_result"}
    ELSE IF n = "scrape" THEN ScrapedKeys
    ELSE IF n = "analyze_scraped_data" THEN {"extracted_info"}
    ELSE IF n = "normalize_data" THEN {"normalized_data"}
    ELSE {"competitive_analysis"}

\* the nodes that have returned
Executed ==
    {NodeOrder[k] : k \in {j \in 1..Len(NodeOrder) :
                        \E m \in (j + 1)..Len(NodeOrder) : NodeOrder[m] = node}}

CriticalTagged ==
    IF output.type = "list" THEN "_critical_error" \in output.recs[1].tags
    ELSE IF output.type = "phases" THEN "_critical_error" \in output.tags
    ELSE "_critical_error" \in output.value.tags

C9_Safe ==
    /\ ~escaped
    /\ pc = "entry" => \A n \in Executed : OutputKeys(n) \subseteq st.keys
    /\ (pc = "entry" /\ ret = "except") => CriticalTagged /\ st.error

\* the nodes still to run, and a bound on the steps the run has left: the
\* number of a node's steps is bounded by its chunk list
NodesLeft == Len(NodeOrder) - (CHOOSE j \in 1..Len(NodeOrder) : NodeOrder[j] = node)

Rank ==
    NodesLeft * (MaxChunks + 3)
    + (IF pc = "entry" THEN MaxChunks + 2
       ELSE IF pc = "single" THEN 1
       ELSE (Len(work) - idx) + 1)

\* C9: no exception leaves a stage function, every stage that ran has set
\* its output key, a stage-level exception leaves a fallback Aggregate
\* tagged as critical under that key, and the run always reaches the end of
\* the graph with competitive_analysis set: before the end a step is always
\* possible, and every step brings the end nearer.
C9_StagesAlwaysReturn ==
    /\ []C9_Safe
    /\ [](node = "END" => "competitive_analysis" \in st.keys)
    /\ [](node # "END" => Rank > 0 /\ ENABLED Next)
    /\ [][Rank' < Rank]_vars

C9_Witness ==
    /\ node = "END" /\ ret = "except"
    /\ Len(work) = 2 /\ idx = 2
    /\ "competitive_analysis" \in st.keys

HasMarker(o) ==
    IF o.type = "list"
    THEN \E i \in 1..Len(o.recs) : o.recs[i].tags \cap ErrorMarkers # {}
    ELSE IF o.type = "phases"
    THEN \/ o.tags \cap ErrorMarkers # {}
         \/ \E i \in 1..Len(o.recs) : o.recs[i].tags \cap ErrorMarkers # {}
    ELSE o.value.tags \cap ErrorMarkers # {}

\* C10: when a stage returns an output for which the call of the whole
\* input or of at least one chunk raised, or no strategy parsed the answer,
\* or the stage's own handler ran, the output carries a boolean error
\* marker, on one of its records or on the Aggregate itself.
C10_FallbackIsMarked ==
    (pc = "entry" /\ ~escaped /\ ret \in {"chunked", "single", "except"}
     /\ (failed \cup garbled # {} \/ ret = "except"))
        => HasMarker(output)

\* C11: when the scoring stage returns from its chunk loop and no chunk gave
\* a usable answer (the call of every chunk raised, or no strategy parsed
\* its answer, or its answer is not a mapping or holds an "error" key), the
\* summary is the fallback tagged _combine_error, with all phase counts zero
\* and crowding score 0.0.
NoUsableChunk ==
    \A i \in 1..Len(acc.recs) :
        \/ i \in failed \cup garbled
        \/ acc.recs[i].shape # "dict"
        \/ acc.recs[i].error

C11_CombineErrorWhenNoValidChunk ==
    (node = "END" /\ ~escaped /\ ret = "chunked" /\ NoUsableChunk) =>
        /\ "_combine_error" \in output.value.tags
        /\ output.value.dist = ZeroDist
        /\ output.value.score = 0 /\ ~output.value.nan

(***************************************************************************)
(* Properties of the parser's strategies (SpecParse).                      *)
(***************************************************************************)
\* a strategy succeeds when it returns a value
Succeeds(o) == o # JsonError /\ o # IntLimitError

\* C12: the four strategies are attempted in the order direct parse, regex
\* span, backward balanced span, line objects: the value returned is that of
\* the lowest-numbered strategy that succeeds, a strategy is entered only
\* after every earlier one failed, and when a strategy fails the following
\* ones are still tried (all four are entered when none succeeds).
C12_StrategiesInOrder ==
    (parsed # Pending /\ raw.type = "str") =>
        LET data == clean_json_string(raw.text)
            r == try_parse_json_strategies(data)
            o == <<Strategy1(data), Strategy2(data), Strategy3(data),
                   Strategy4(data)>>
        IN /\ \A n \in 1..4 :
                  (Succeeds(o[n]) /\ \A m \in 1..(n - 1) : ~Succeeds(o[m]))
                      => r.tried = n /\ r.value = o[n]
           /\ \A m \in 1..(r.tried - 1) : ~Succeeds(o[m])
           /\ (\A n \in 1..4 : ~Succeeds(o[n])) => r.tried = 4 /\ r.via = "none"

(***************************************************************************)
(* Properties of the completion calls (Spec).                              *)
(***************************************************************************)
\* the number of invocations in the trace of the latest call site
Invocations == Len(SelectSeq(api.trace, LAMBDA e : e.ev = "invoke"))

\* C14: a call through rate_limited_api_call invokes the completion once or
\* twice; twice exactly when the first invocation raised a rate-limit
\* signal, and then the cooldown lies between the two; another exception of
\* the first invocation is raised again without a retry; a retry that fails,
\* with a rate-limit signal or not, is not retried and its exception is
\* raised.
C14_RetryOnceOnRateLimit ==
    api.site = "rate_limited_api_call" =>
        /\ Invocations \in 1..2
        /\ Invocations = 2 <=> api.first = "rate_limit"
        /\ Invocations = 2 =>
              api.trace = <<Invoke, Sleep(RateLimitCooldown), Invoke>>
        /\ api.first = "error" => Invocations = 1 /\ api.raised
        /\ api.first = "ok" => Invocations = 1 /\ ~api.raised
        /\ api.first = "rate_limit" => (api.raised <=> api.retry # "ok")

\* a batch of the extraction stage whose call met two rate-limit signals in
\* a row: two invocations, and the batch failed
C14_Witness ==
    /\ node = "analyze_scraped_data" /\ pc = "loop" /\ idx >= 1
    /\ api.site = "rate_limited_api_call"
    /\ api.first = "rate_limit" /\ api.retry = "rate_limit"
    /\ Invocations = 2 /\ api.raised
    /\ idx \in failed

\* C15: between any two consecutive invocations of the completion in a run
\* the minimum delay has been waited: no invocation was made without it.
C15_MinimumDelayBetweenCalls == ~api.hasty

(***************************************************************************)
(* Properties of the Aggregates (Spec).                                    *)
(***************************************************************************)
\* C16: the normalized_data the normalization stage returns is a mapping
\* whose phase keys are exactly Preclinical, Phase I, Phase II, Phase III
\* and Approved, on every path of the stage.
C16_FivePhaseKeys ==
    (pc = "entry" /\ ~escaped /\ output.type = "phases") =>
        output.keys = valid_phases

\* the extraction stage has just returned
Extracted == node = "normalize_data" /\ pc = "entry" /\ ~escaped

\* C17: the extracted_info the extraction stage returns is a list with at
\* least one record; when no batch gave a record (no source had data, or
\* no answer held one) it is exactly one Fallback Record, and when the
\* stage's own handler ran it is exactly one Fallback Record tagged
\* _critical_error.
C17_ExtractedNeverEmpty ==
    Extracted =>
        /\ output.type = "list"
        /\ Len(output.recs) >= 1
        /\ (ret = "chunked" /\ acc.recs = <<>>) =>
              /\ Len(output.recs) = 1
              /\ "_fallback_entry" \in output.recs[1].tags
              /\ output.recs[1].tags \cap
                     {"_critical_error", "_processing_error"} = {}
        /\ ret = "except" =>
              /\ Len(output.recs) = 1
              /\ {"_fallback_entry", "_critical_error"} \subseteq output.recs[1].tags

C17_Witness ==
    /\ Extracted /\ ret = "chunked"
    /\ work = <<>> /\ acc.recs = <<>>
    /\ output.recs = <<create_fallback_clinical_entry(0)>>

\* the normalization stage has just returned from its chunk loop; acc still
\* holds the merged phase lists as they were before duplicates were removed
Merged == node = NextNode("normalize_data") /\ pc = "entry" /\ ret = "chunked" /\ ~escaped

\* two records of one phase with the same non-underscore fields
SameTrial(a, b) == a.phase = b.phase /\ a.key = b.key

\* the position in the merged lists of the first record with r's fields
FirstAt(r) ==
    CHOOSE i \in 1..Len(acc.recs) :
        /\ SameTrial(acc.recs[i], r)
        /\ \A j \in 1..(i - 1) : ~SameTrial(acc.recs[j], r)

\* C18: after the chunked merge of the normalization stage no phase holds
\* two records with the same non-underscore fields; every merged record is
\* still represented, by the first record of its group of duplicates, and
\* the records that stay are in the order in which they first appeared.
C18_FirstOccurrenceKept ==
    Merged =>
        /\ \A i, j \in 1..Len(output.recs) :
               i < j => ~SameTrial(output.recs[i], output.recs[j])
        /\ \A i \in 1..Len(acc.recs) :
               \E k \in 1..Len(output.recs) : SameTrial(output.recs[k], acc.recs[i])
        /\ \A k \in 1..Len(output.recs) :
               output.recs[k] = acc.recs[FirstAt(output.recs[k])]
        /\ \A i, j \in 1..Len(output.recs) :
               i < j => FirstAt(output.recs[i]) < FirstAt(output.recs[j])

C18_Witness ==
    /\ Merged
    /\ Len(acc.recs) = 4 /\ Len(output.recs) = 2
    /\ acc.recs[1].key = "A" /\ acc.recs[3].key = "B" /\ acc.recs[4].key = "A"
    /\ output.recs[1] = acc.recs[1]
    /\ output.recs[2] = acc.recs[3]

\* the scoring stage has just combined the results of its chunks, at least
\* one of which was a mapping without an "error" key
Combined ==
    /\ node = "END" /\ ~escaped /\ ret = "chunked"
    /\ valid_chunks(acc.recs) # <<>>

\* 0.2, 0.4, 0.6, 0.8 and 1.0 times the five counts, summed, in tenths
WeightedTenths(counts) ==
    2 * counts[1] + 4 * counts[2] + 6 * counts[3] + 8 * counts[4] + 10 * counts[5]

\* C19: the crowding score of the combined summary is weighted_sum / 50,
\* capped at 1.0 and rounded to three decimals, weighted_sum being 0.2, 0.4,
\* 0.6, 0.8 and 1.0 times the combined counts of the five phases; for the
\* combined counts 10, 14, 9, 6, 3 it is 0.416 and total_competitors is 42.
\* (In thousandths: weighted_sum / 50 is twice the sum in tenths.)
C19_CrowdingScoreFormula ==
    Combined =>
        LET counts == output.value.dist
        IN /\ output.value.score =
                 (IF 2 * WeightedTenths(counts) > 1000 THEN 1000
                  ELSE 2 * WeightedTenths(counts))
           /\ counts = <<10, 14, 9, 6, 3>> =>
                 output.value.score = 416 /\ output.value.total = 42

C19_Witness ==
    /\ Combined
    /\ Len(valid_chunks(acc.recs)) = 2
    /\ output.value.dist = <<10, 14, 9, 6, 3>>
    /\ output.value.score = 416
    /\ output.value.total = 42

(***************************************************************************)
(* Properties of the parser's fallback (SpecParse).                        *)
(***************************************************************************)
\* graceful_json_parse was called with None or with the empty string
NoInput ==
    /\ parsed # Pending
    /\ raw.type = "None" \/ (raw.type = "str" /\ raw.text = <<>>)

\* C20: for a null or an empty input graceful_json_parse returns a fallback
\* made from the template, or the generic error mapping when there is no
\* template, that carries the caller's context, and the value returned is
\* not the template object the caller passed.
C20_NoInputFallbackTagged ==
    NoInput =>
        /\ parsed.kind = "dict"
        /\ parsed.text = (IF raw.template = "given" THEN <<"template">>
                          ELSE <<"default">>)
        /\ parsed.context = "ctx"
        /\ ~parsed.is_template

\* C21: graceful_json_parse returns a list or mapping it is given as it is,
\* so a second call on the list or mapping that a call returned (for a
\* structured input and for a text alike) returns the same value.
C21_ParseIdempotent ==
    /\ []((parsed # Pending /\ raw.type = "value") =>
             /\ parsed.kind = KindOf(raw.text) /\ parsed.text = raw.text
             /\ parsed.via = "as_is")
    /\ [][(parsed # Pending /\ parsed.kind \in {"list", "dict"}) =>
             (parsed'.kind = parsed.kind /\ parsed'.text = parsed.text)]_vars

C21_Witness ==
    /\ raw.type = "value" /\ raw.template = "none"
    /\ parsed.via = "as_is" /\ parsed.kind = "list"
    /\ Len(parsed.text) = 4

(***************************************************************************)
(* Properties of the records of failed chunks (Spec).                      *)
(***************************************************************************)
\* C22: when a stage returns from its chunk loop, every record it holds for
\* a chunk whose call raised carries the error message and the 1-based
\* index of that chunk in its sequence of chunks, in every stage and for
\* every source of the extraction stage.
C22_FailedChunkTagged ==
    (LoopReturned /\ ret = "chunked") =>
        \A k \in 1..Len(StageRecords) :
            (StageRecords[k].from \in failed
             /\ "_processing_error" \in StageRecords[k].tags)
                => /\ "_error_message" \in StageRecords[k].tags
                   /\ StageRecords[k].chunk = work[StageRecords[k].from].batch

(***************************************************************************)
(* Properties of the scrape stage (Spec).                                  *)
(***************************************************************************)
\* scraper_tool has just returned after a fetch of clinical trials, EUCTR
\* or PubMed raised
ScraperRaised ==
    /\ node = NextNode("scrape") /\ pc = "entry" /\ ~escaped
    /\ failed # {}

\* the payloads of the three sources in the order of their fetches
Scraped(o) == <<o.clinical, o.euctr, o.pubmed>>

\* C23: when the fetch of clinical trials, EUCTR or PubMed raises,
\* scraper_tool stores an empty list for that source, has still called the
\* three fetches in order, stores for every other source the payload its
\* fetch returned, and adds no error field to the state.
C23_ScraperFailureIsolated ==
    /\ [](ScraperRaised =>
             /\ calls = <<1, 2, 3>>
             /\ ret = "return"
             /\ \A i \in 1..3 :
                    IF i \in failed
                    THEN Scraped(output)[i] = EmptyPayload(i)
                    ELSE Scraped(output)[i] = output.fetched[i])
    /\ [][node = "scrape" => st'.error = st.error]_vars

C23_Witness ==
    /\ ScraperRaised
    /\ failed = {1}
    /\ output.euctr.kind = "method"
    /\ output.pubmed.len = PubmedBatchSize
    /\ ~st.error

(***************************************************************************)
(* Properties of the graph (Spec).                                         *)
(***************************************************************************)
\* the edges of the graph, and the step from the last node to the end
Edges ==
    {<<"analyze_patents_query", "scrape">>,
     <<"scrape", "analyze_scraped_data">>,
     <<"analyze_scraped_data", "normalize_data">>,
     <<"normalize_data", "calculate_competitive_score_and_white_space_flags">>,
     <<"calculate_competitive_score_and_white_space_flags", "END">>}

\* the kind of value a node stores under its output key
Writes(n) ==
    IF n \in {"analyze_patents_query", "analyze_scraped_data"} THEN "list"
    ELSE IF n = "scrape" THEN "scraped"
    ELSE IF n = "normalize_data" THEN "phases"
    ELSE "analysis"

\* C24: the stages run one after another in the order patent analysis,
\* scrape, extraction, normalization, scoring, each once: the run moves
\* from a node only to the node its edge leads to; when a stage is entered
\* exactly the stages before it have written their output keys; and the
\* value a stage reads is the one the stage before it wrote (the extraction
\* makes its batches of the scraped payloads, the normalization and the
\* scoring their chunks of extracted_info and normalized_data), also when
\* that stage returned from its handler.
C24_StagesInOrder ==
    /\ [][node' # node => (<<node, node'>> \in Edges \/ escaped')]_vars
    /\ []((pc = "entry" /\ ~escaped) =>
             /\ st.keys = UNION {OutputKeys(n) : n \in Executed}
             /\ \A e \in Edges : node = e[2] => output.type = Writes(e[1]))
    /\ [][(pc = "entry" /\ pc' # "entry") =>
             /\ node' = node
             /\ node = "analyze_scraped_data" => Len(work') = BatchCount(output)
             /\ node = "normalize_data" =>
                    output.recs # <<>> /\ Len(work') <= Len(output.recs)
             /\ node = "calculate_competitive_score_and_white_space_flags" =>
                    Len(work') <= Cardinality(output.keys) + Cardinality(output.tags)]_vars

C24_Witness ==
    /\ node = "END" /\ ~escaped
    /\ st.error /\ ret = "chunked"
    /\ Len(work) = MaxChunks
    /\ st.keys = UNION {OutputKeys(n) : n \in Executed}

(***************************************************************************)
(* Properties of the combination of chunk results (Spec).                  *)
(***************************************************************************)
\* the scoring stage has left its chunk loop and come to the end, and no
\* valid chunk holds an unhashable modality or acquisition
ChunksCombined ==
    /\ node = "END" /\ ~escaped /\ ret \in {"chunked", "except"}
    /\ work # <<>> /\ Len(acc.recs) = Len(work)
    /\ \A i \in 1..Len(acc.recs) : acc.recs[i].hashable

\* the chunk results that are mappings without an "error" key
ValidAt == {i \in 1..Len(acc.recs) : acc.recs[i].shape = "dict" /\ ~acc.recs[i].error}

RECURSIVE SumOver(_, _)
SumOver(S, p) ==
    IF S = {} THEN 0
    ELSE LET i == CHOOSE j \in S : TRUE
         IN acc.recs[i].dist[p] + SumOver(S \ {i}, p)

Reversed(s) == [i \in 1..Len(s) |-> s[Len(s) + 1 - i]]

\* dist, total and score of a combination
Figures(a) == <<a.dist, a.total, a.score>>

\* C25: the combined phase_distribution holds, for each of the five phases,
\* the sum over the valid chunks of the counts that convert to an integer
\* (the others are left out), total_competitors is their sum, and the
\* three figures are the same for the chunk results in reverse order and
\* with a chunk of zero counts added.
C25_CombinedCountsAreSums ==
    ChunksCombined =>
        /\ ret = "chunked"
        /\ output.value.dist = [p \in 1..5 |-> SumOver(ValidAt, p)]
        /\ output.value.total = SumOver(ValidAt, 1) + SumOver(ValidAt, 2)
               + SumOver(ValidAt, 3) + SumOver(ValidAt, 4) + SumOver(ValidAt, 5)
        /\ Figures(combine_competitive_analysis_results(Reversed(acc.recs)))
               = Figures(output.value)
        /\ Figures(combine_competitive_analysis_results(
                       Append(acc.recs, create_fallback_competitive_analysis(0))))
               = Figures(output.value)

(***************************************************************************)
(* Properties of the text splitter (SpecChunk).                            *)
(***************************************************************************)
\* C26: split_text_by_tokens returns (its loop runs once over the
\* sentences), and every chunk it returns costs at most the budget unless
\* it holds one sentence only, without overlap text, that exceeds the
\* budget alone; chunks that start with the overlap of the previous chunk
\* included.
C26_TextChunkWithinBudget ==
    called = "split_text_by_tokens" =>
        \A c \in 1..Len(chunks) :
            \/ SumSize(chunks[c]) <= budget
            \/ /\ Len(chunks[c]) = 1
               /\ chunks[c][1].id # 0
               /\ chunks[c][1].size > budget

(***************************************************************************)
(* Properties of the extraction stage's batches (Spec).                    *)
(***************************************************************************)
\* the order of the sub-pipelines
SourceRank(src) ==
    IF src = "Clinical Trials" THEN 1
    ELSE IF src = "EUCTR" THEN 2
    ELSE IF src = "PubMed" THEN 3 ELSE 4

\* the extraction stage is in its batch loop or has just returned from it
Extracting ==
    \/ node = "analyze_scraped_data" /\ pc = "loop"
    \/ Extracted /\ ret = "chunked"

\* C27: in the extraction stage the batches of clinical trials, of EUCTR,
\* of PubMed and of patent abstracts are processed in that order, one call
\* after the other; the input of every call has the batch in exactly one of
\* the four evidence slots and "" in the others; and the list the stage
\* returns holds the records of the batches in the order of processing.
C27_SubPipelinesInOrder ==
    Extracting =>
        /\ \A i, j \in 1..Len(work) :
               i < j =>
                   \/ SourceRank(work[i].src) < SourceRank(work[j].src)
                   \/ work[i].src = work[j].src /\ work[i].batch < work[j].batch
        /\ calls = [i \in 1..idx |-> i]
        /\ \A i \in 1..Len(work) :
               /\ Cardinality({slot \in ScrapedKeys : invoke_input(work[i])[slot] # ""}) = 1
               /\ invoke_input(work[i])[SlotOf(work[i].src)] = "batch"
        /\ \A i, j \in 1..Len(acc.recs) :
               i < j => acc.recs[i].from <= acc.recs[j].from
        /\ (pc = "entry" /\ acc.recs # <<>>) => output.recs = acc.recs

C27_Witness ==
    /\ Extracted /\ ret = "chunked"
    /\ Len(work) = 2
    /\ work[1].src = "EUCTR" /\ work[2].src = "Patent Abstracts"
    /\ Len(output.recs) = 3
    /\ output.recs[1].from = 1 /\ output.recs[3].from = 2

(***************************************************************************)
(* Properties of the validator's result list (SpecValidate).               *)
(***************************************************************************)
\* C28: extract_valid_entries returns one record for every mapping among
\* the items of its input, in the order of the input (the record of the
\* i-th mapping keeps that mapping's truthy fields); one record for an
\* input that is a single mapping; none for a scalar or None; and the call
\* leaves the caller's items as they were.
C28_OneCopyPerMapping ==
    /\ [](entries # NotCalled =>
             /\ Len(entries) =
                    Cardinality({i \in 1..Len(args.data.items) :
                                    /\ args.data.kind \in {"dict", "list"}
                                    /\ args.data.items[i].kind = "dict"})
             /\ args.data.kind = "dict" => Len(entries) = 1
             /\ args.data.kind \in {"None", "scalar"} => entries = <<>>
             /\ \A i \in 1..Len(entries) :
                    \A n \in DOMAIN GivenDicts[i].fields \ {"_validated"} :
                        GivenDicts[i].fields[n] # "empty" =>
                            entries[i][n] = GivenDicts[i].fields[n])
    /\ [][args' = args]_vars

C28_Witness ==
    /\ entries # NotCalled
    /\ args.data.kind = "list" /\ Len(args.data.items) = 2
    /\ args.data.items[1] = [kind |-> "dict", fields |-> [n \in {"a"} |-> "text"]]
    /\ args.data.items[2] = [kind |-> "dict", fields |-> [n \in {"a"} |-> "true"]]
    /\ args.required_fields.names = <<"a", "b">>
    /\ Len(entries) = 2
    /\ entries[1]["a"] = "text" /\ entries[2]["a"] = "true"

RECURSIVE KnownNumbers(_)
\* the publication numbers of the entries, in their order, without the
\* missing ones and without "Unknown"
KnownNumbers(recs) ==
    IF recs = <<>> THEN <<>>
    ELSE LET number == publication_number(Head(recs))
         IN IF number = "" \/ number = "Unknown"
            THEN KnownNumbers(Tail(recs))
            ELSE <<number>> \o KnownNumbers(Tail(recs))

\* every entry of the patents result is a fallback record
OnlyFallbacks(recs) ==
    \A i \in 1..Len(recs) :
        recs[i].tags \cap {"_processing_error", "_parsing_error", "_critical_error"} # {}

\* C30: scraper_tool asks for the abstracts of exactly the publication
\* numbers of the patents result that are set and are not "Unknown", in the
\* order of the entries; when the patents result holds only fallback
\* records there is none, no abstract is fetched and the abstracts are the
\* empty list.
C30_KnownNumbersOnly ==
    [][node = "scrape" /\ output'.type = "scraped" =>
          /\ output'.numbers = KnownNumbers(output.recs)
          /\ OnlyFallbacks(output.recs) =>
                /\ output'.numbers = <<>>
                /\ output'.abstracts = [kind |-> "list", len |-> 0]]_vars

C30_Witness ==
    /\ node = "analyze_scraped_data" /\ pc = "entry"
    /\ output.type = "scraped"
    /\ output.numbers = <<"A", "B">>
    /\ output.abstracts.kind = "list" /\ output.abstracts.len > 0

====
